---- MODULE Spec2Model ----
(***************************************************************************)
(* Routing and session orchestration of ai-way (src/core).                 *)
(*                                                                         *)
(* Text is modelled as a sequence of one-character strings, so that the    *)
(* regular expressions of Conductor._parse_routing_response, str.lower,    *)
(* str.strip, float() and the substring test of the fuzzy match are        *)
(* computed character by character, as the Python code computes them.      *)
(* Confidences are exact rationals [num, den] in lowest terms.             *)
(***************************************************************************)
EXTENDS Integers, Sequences, FiniteSets, TLC

\* ------------------------------------------------------------------ text

UpperLetters == <<"A", "B", "C", "D", "E", "F", "G", "H", "I", "J", "K", "L", "M", "N", "O", "P", "Q", "R", "S", "T", "U", "V", "W", "X", "Y", "Z">>

LowerLetters == <<"a", "b", "c", "d", "e", "f", "g", "h", "i", "j", "k", "l", "m", "n", "o", "p", "q", "r", "s", "t", "u", "v", "w", "x", "y", "z">>

Digits == <<"0", "1", "2", "3", "4", "5", "6", "7", "8", "9">>

\* str.lower() on one character
LowerChar(c) ==
    IF \E i \in 1..26 : UpperLetters[i] = c
    THEN LowerLetters[CHOOSE i \in 1..26 : UpperLetters[i] = c]
    ELSE c

\* str.lower()
Lower(s) == [i \in 1..Len(s) |-> LowerChar(s[i])]

\* the regex class \s
IsSpace(c) == c \in {" ", "\t", "\n", "\r"}

\* the regex class \S
IsNonSpace(c) == ~IsSpace(c)

\* the regex class [\d.]
IsDigitOrDot(c) == c = "." \/ \E i \in 1..10 : Digits[i] = c

\* the regex atom . (no DOTALL): anything but a newline
IsDot(c) == c # "\n"

\* membership of a character in a class of the patterns
InClass(class, c) ==
    CASE class = "\\s" -> IsSpace(c)
      [] class = "\\S" -> IsNonSpace(c)
      [] class = "[\\d.]" -> IsDigitOrDot(c)
      [] class = "." -> IsDot(c)

\* end (exclusive) of the longest run of characters of a class from j: what
\* a greedy repetition of the class consumes
RunEnd(class, s, j) ==
    CHOOSE k \in j..(Len(s) + 1) :
        /\ \A m \in j..(k - 1) : InClass(class, s[m])
        /\ (k = Len(s) + 1 \/ ~InClass(class, s[k]))

\* a literal of a pattern matches at position i, under re.IGNORECASE
LiteralAt(lit, s, i) ==
    /\ i + Len(lit) - 1 <= Len(s)
    /\ \A k \in 1..Len(lit) : LowerChar(s[i + k - 1]) = LowerChar(lit[k])

\* Python's `a in b` on strings
Contains(b, a) ==
    \E i \in 1..(Len(b) - Len(a) + 1) : SubSeq(b, i, i + Len(a) - 1) = a

\* str.strip()
Strip(s) ==
    IF \A i \in 1..Len(s) : IsSpace(s[i]) THEN << >>
    ELSE LET f == CHOOSE i \in 1..Len(s) :
                      ~IsSpace(s[i]) /\ \A m \in 1..(i - 1) : IsSpace(s[m])
             l == CHOOSE i \in 1..Len(s) :
                      ~IsSpace(s[i]) /\ \A m \in (i + 1)..Len(s) : IsSpace(s[m])
         IN  SubSeq(s, f, l)

RECURSIVE Join(_, _)
\* sep.join(parts)
Join(parts, sep) ==
    IF parts = << >> THEN << >>
    ELSE IF Len(parts) = 1 THEN parts[1]
    ELSE parts[1] \o sep \o Join(Tail(parts), sep)

\* ------------------------------------------------------------- numbers

RECURSIVE Gcd(_, _)
Gcd(a, b) == IF b = 0 THEN a ELSE Gcd(b, a % b)

\* a float value as a rational in lowest terms
Rat(n, d) == LET g == Gcd(n, d) IN [num |-> n \div g, den |-> d \div g]

RatLess(a, b) == a.num * b.den < b.num * a.den

DigitValue(c) == (CHOOSE i \in 1..10 : Digits[i] = c) - 1

RECURSIVE DigitsValue(_)
DigitsValue(s) ==
    IF s = << >> THEN 0
    ELSE 10 * DigitsValue(SubSeq(s, 1, Len(s) - 1)) + DigitValue(s[Len(s)])

RECURSIVE Pow10(_)
Pow10(n) == IF n = 0 THEN 1 ELSE 10 * Pow10(n - 1)

ValueError == [exc |-> "ValueError"]

\* float(s) for s matched by [\d.]+ : a decimal literal with at most one
\* point and at least one digit, anything else raises ValueError
ParseFloat(s) ==
    LET dots == {i \in 1..Len(s) : s[i] = "."}
    IN  IF Cardinality(dots) > 1 \/ Cardinality(dots) = Len(s) THEN ValueError
        ELSE IF dots = {} THEN Rat(DigitsValue(s), 1)
        ELSE LET p == CHOOSE i \in dots : TRUE
                 whole == SubSeq(s, 1, p - 1)
                 frac == SubSeq(s, p + 1, Len(s))
             IN  Rat(DigitsValue(whole \o frac), Pow10(Len(frac)))

\* min(a, b) and max(a, b) of Python: the first argument wins a tie
PyMin(a, b) == IF RatLess(b, a) THEN b ELSE a

PyMax(a, b) == IF RatLess(a, b) THEN b ELSE a

\* -------------------------------------------------- routing reply parse

kwAgent == <<"A", "G", "E", "N", "T", ":">>

kwConfidence == <<"C", "O", "N", "F", "I", "D", "E", "N", "C", "E", ":">>

kwReason == <<"R", "E", "A", "S", "O", "N", ":">>

\* the direct-response sentinel, lines 112, 136, 231
conductor == <<"c", "o", "n", "d", "u", "c", "t", "o", "r">>

\* line 114
DefaultReasoning == <<"D", "e", "f", "a", "u", "l", "t", " ", "r", "o", "u", "t", "i", "n", "g">>

\* line 113 initialised to 0.0 instead
DefaultConfidence_Zero == Rat(0, 1)

\* line 113
DefaultConfidence == Rat(1, 2)

NoMatch == [matched |-> FALSE]

\* re.search(r'AGENT:\s*(\S+)', response, re.IGNORECASE): group(1) of the
\* leftmost match
AgentMatch(response) ==
    LET ok(i) == /\ LiteralAt(kwAgent, response, i)
                 /\ RunEnd("\\s", response, i + Len(kwAgent)) <= Len(response)
        starts == {i \in 1..Len(response) : ok(i)}
    IN  IF starts = {} THEN NoMatch
        ELSE LET i == CHOOSE x \in starts : \A y \in starts : x <= y
                 j == RunEnd("\\s", response, i + Len(kwAgent))
             IN  [matched |-> TRUE,
                  group |-> SubSeq(response, j, RunEnd("\\S", response, j) - 1)]

\* re.search(r'CONFIDENCE:\s*([\d.]+)', response, re.IGNORECASE)
ConfMatch(response) ==
    LET after(i) == RunEnd("\\s", response, i + Len(kwConfidence))
        ok(i) == /\ LiteralAt(kwConfidence, response, i)
                 /\ after(i) <= Len(response)
                 /\ IsDigitOrDot(response[after(i)])
        starts == {i \in 1..Len(response) : ok(i)}
    IN  IF starts = {} THEN NoMatch
        ELSE LET i == CHOOSE x \in starts : \A y \in starts : x <= y
                 j == after(i)
             IN  [matched |-> TRUE,
                  group |-> SubSeq(response, j, RunEnd("[\\d.]", response, j) - 1)]

\* re.search(r'REASON:\s*(.+?)(?:\n|$)', response, re.IGNORECASE): \s* is
\* greedy but gives whitespace back until . finds a character that is not
\* a newline; .+? then runs to the next newline or the end
ReasonMatch(response) ==
    LET first(i) == i + Len(kwReason)
        begins(i) == {p \in first(i)..RunEnd("\\s", response, first(i)) :
                          p <= Len(response) /\ IsDot(response[p])}
        ok(i) == LiteralAt(kwReason, response, i) /\ begins(i) # {}
        starts == {i \in 1..Len(response) : ok(i)}
    IN  IF starts = {} THEN NoMatch
        ELSE LET i == CHOOSE x \in starts : \A y \in starts : x <= y
                 p == CHOOSE x \in begins(i) : \A y \in begins(i) : y <= x
             IN  [matched |-> TRUE,
                  group |-> SubSeq(response, p, RunEnd(".", response, p) - 1)]

IsExc(x) == "exc" \in DOMAIN x

\* lines 116-119: the local `agent` after the AGENT line is parsed
ParseAgent(response) ==
    LET m == AgentMatch(response)
    IN  IF m.matched THEN Lower(Strip(m.group)) ELSE conductor

\* lines 121-128 without the except clause: the ValueError of float() leaves
\* the function
ParseConfidence_Uncaught(response) ==
    LET m == ConfMatch(response)
    IN  IF ~m.matched THEN DefaultConfidence
        ELSE LET f == ParseFloat(m.group)
             IN  IF IsExc(f) THEN f
                 ELSE PyMax(Rat(0, 1), PyMin(Rat(1, 1), f))

\* lines 121-128 without line 126: the parsed number is not clamped
ParseConfidence_Unclamped(response) ==
    LET m == ConfMatch(response)
    IN  IF ~m.matched THEN DefaultConfidence
        ELSE LET f == ParseFloat(m.group)
             IN  IF IsExc(f) THEN DefaultConfidence ELSE f

\* lines 121-128: the local `confidence`; float() may raise ValueError,
\* which the except clause swallows, leaving the default
ParseConfidence(response) ==
    LET m == ConfMatch(response)
    IN  IF ~m.matched THEN DefaultConfidence
        ELSE LET f == ParseFloat(m.group)
             IN  IF IsExc(f) THEN DefaultConfidence
                 ELSE PyMax(Rat(0, 1), PyMin(Rat(1, 1), f))

\* lines 130-133: the local `reasoning`
ParseReason(response) ==
    LET m == ReasonMatch(response)
    IN  IF m.matched THEN Strip(m.group) ELSE DefaultReasoning

\* the three locals after line 133
ParseFields(response) ==
    [agent |-> ParseAgent(response),
     confidence |-> ParseConfidence(response),
     reasoning |-> ParseReason(response)]

\* f"Agent '{agent}' not found, handling directly"
NotFoundReasoning(agent) ==
    <<"A", "g", "e", "n", "t", " ", "'">> \o agent \o <<"'", " ", "n", "o", "t", " ", "f", "o", "u", "n", "d", ",", " ", "h", "a", "n", "d", "l", "i", "n", "g", " ", "d", "i", "r", "e", "c", "t", "l", "y">>

\* `agent in self.agents`: a key of the dict
InCatalog(agents, name) == \E k \in 1..Len(agents) : agents[k].name = name

\* lines 138-139: the catalog positions whose name contains the extracted
\* string or is contained in it
FuzzyHits(agents, agent) ==
    {k \in 1..Len(agents) :
        Contains(agents[k].name, agent) \/ Contains(agent, agents[k].name)}

\* lines 138-141 without the break: the last hit stays assigned
FuzzyPick_Last(agents, agent) ==
    LET hits == FuzzyHits(agents, agent)
    IN  agents[CHOOSE k \in hits : \A m \in hits : m <= k].name

\* lines 138-141: the for loop takes the first hit and breaks
FuzzyPick(agents, agent) ==
    LET hits == FuzzyHits(agents, agent)
    IN  agents[CHOOSE k \in hits : \A m \in hits : k <= m].name

\* lines 135-144 without line 144: the parsed reasoning is kept on fallback
ValidateAgent_KeepsReasoning(agents, f) ==
    IF f.agent # conductor /\ ~InCatalog(agents, f.agent)
    THEN IF FuzzyHits(agents, f.agent) # {}
         THEN [f EXCEPT !.agent = FuzzyPick(agents, f.agent)]
         ELSE [f EXCEPT !.agent = conductor]
    ELSE f

\* lines 135-144 skipped: the extracted agent is returned as it is
ValidateAgent_TrustsReply(agents, f) == f

\* lines 135-144 without the else branch of the for loop: an agent nothing
\* matches is returned as it is
ValidateAgent_NoFallback(agents, f) ==
    IF f.agent # conductor /\ ~InCatalog(agents, f.agent) /\ FuzzyHits(agents, f.agent) # {}
    THEN [f EXCEPT !.agent = FuzzyPick(agents, f.agent)]
    ELSE f

\* lines 135-144: validation of the extracted agent.  In the else branch of
\* the for loop `agent` is reassigned before the message is formatted, so
\* the message names "conductor".
ValidateAgent(agents, f) ==
    IF f.agent # conductor /\ ~InCatalog(agents, f.agent)
    THEN IF FuzzyHits(agents, f.agent) # {}
         THEN [f EXCEPT !.agent = FuzzyPick(agents, f.agent)]
         ELSE [f EXCEPT !.agent = conductor,
                        !.reasoning = NotFoundReasoning(conductor)]
    ELSE f

\* Conductor._parse_routing_response: a RoutingDecision (the timestamp field
\* is left out), or the exception a step of it raised
parse_routing_response(agents, response) ==
    LET f == ParseFields(response)
    IN  IF IsExc(f.confidence) THEN f.confidence
        ELSE ValidateAgent(agents, f)

\* ------------------------------------------------------------ catalog

ethical_hacker == <<"e", "t", "h", "i", "c", "a", "l", "-", "h", "a", "c", "k", "e", "r">>

backend_engineer == <<"b", "a", "c", "k", "e", "n", "d", "-", "e", "n", "g", "i", "n", "e", "e", "r">>

growth_hacker == <<"g", "r", "o", "w", "t", "h", "-", "h", "a", "c", "k", "e", "r">>

QA_Lead == <<"Q", "A", "-", "L", "e", "a", "d">>

\* an AgentProfile, as far as the conductor reads it
Profile(name, category, role) ==
    [name |-> name, category |-> category, role |-> role]

\* the lists load_all_agents may return: file stems in directory order
AgentLists ==
    { << >>,
      <<Profile(ethical_hacker, <<"s", "e", "c", "u", "r", "i", "t", "y">>, <<"F", "i", "n", "d", "s", " ", "h", "o", "l", "e", "s", ".">>), 
       Profile(backend_engineer, <<"d", "e", "v", "e", "l", "o", "p", "e", "r", "s">>, <<"B", "u", "i", "l", "d", "s", " ", "s", "e", "r", "v", "i", "c", "e", "s", ".">>)>>,
      <<Profile(backend_engineer, <<"d", "e", "v", "e", "l", "o", "p", "e", "r", "s">>, <<"B", "u", "i", "l", "d", "s", " ", "s", "e", "r", "v", "i", "c", "e", "s", ".">>), 
       Profile(ethical_hacker, <<"s", "e", "c", "u", "r", "i", "t", "y">>, <<"F", "i", "n", "d", "s", " ", "h", "o", "l", "e", "s", ".">>)>>,
      <<Profile(ethical_hacker, <<"s", "e", "c", "u", "r", "i", "t", "y">>, <<"F", "i", "n", "d", "s", " ", "h", "o", "l", "e", "s", ".">>), 
       Profile(growth_hacker, <<"s", "p", "e", "c", "i", "a", "l", "i", "s", "t", "s">>, <<"G", "r", "o", "w", "s", " ", "t", "h", "i", "n", "g", "s", ".">>)>>,
      <<Profile(growth_hacker, <<"s", "p", "e", "c", "i", "a", "l", "i", "s", "t", "s">>, <<"G", "r", "o", "w", "s", " ", "t", "h", "i", "n", "g", "s", ".">>), 
       Profile(ethical_hacker, <<"s", "e", "c", "u", "r", "i", "t", "y">>, <<"F", "i", "n", "d", "s", " ", "h", "o", "l", "e", "s", ".">>),
        Profile(growth_hacker, <<"r", "e", "s", "e", "a", "r", "c", "h">>, <<"G", "r", "o", "w", "s", " ", "t", "h", "i", "n", "g", "s", ".">>)>>,
      <<Profile(QA_Lead, <<"q", "a">>, <<"T", "e", "s", "t", "s", ".">>), 
       Profile(backend_engineer, <<"d", "e", "v", "e", "l", "o", "p", "e", "r", "s">>, <<"B", "u", "i", "l", "d", "s", " ", "s", "e", "r", "v", "i", "c", "e", "s", ".">>)>> }

RECURSIVE DictOf(_)
\* {a.name: a for a in agents}: keys in order of first insertion, a later
\* profile of the same name replaces the value and keeps the position
DictOf(list) ==
    IF list = << >> THEN << >>
    ELSE LET init == DictOf(SubSeq(list, 1, Len(list) - 1))
             a == list[Len(list)]
         IN  IF InCatalog(init, a.name)
             THEN [k \in 1..Len(init) |->
                      IF init[k].name = a.name THEN a ELSE init[k]]
             ELSE Append(init, a)

\* ------------------------------------------------------ backend replies

AgentLines ==
    { <<"A", "G", "E", "N", "T", ":", " ", "e", "t", "h", "i", "c", "a", "l", "-", "h", "a", "c", "k", "e", "r">>,
      <<"A", "G", "E", "N", "T", ":", " ", "h", "a", "c", "k", "e", "r">>,
      <<"a", "g", "e", "n", "t", ":", " ", "B", "a", "c", "k", "e", "n", "d", "-", "E", "n", "g", "i", "n", "e", "e", "r">>,
      <<"A", "G", "E", "N", "T", ":", " ", "e", "t", "h", "i", "c", "a", "l", "-", "h", "a", "c", "k", "e", "r", ".">>,
      <<"A", "G", "E", "N", "T", ":", " ", "Q", "A", "-", "L", "e", "a", "d">>,
      <<"A", "G", "E", "N", "T", ":", " ", "n", "o", "b", "o", "d", "y">>,
      <<"A", "G", "E", "N", "T", ":", " ", "c", "o", "n", "d", "u", "c", "t", "o", "r">>,
      <<"A", "G", "E", "N", "T", ":">> }

ConfidenceLines ==
    { <<"C", "O", "N", "F", "I", "D", "E", "N", "C", "E", ":", " ", "0", ".", "9", "2">>,
      <<"C", "O", "N", "F", "I", "D", "E", "N", "C", "E", ":", " ", "1", ".", "5">>,
      <<"C", "O", "N", "F", "I", "D", "E", "N", "C", "E", ":", " ", "0">>,
      <<"C", "O", "N", "F", "I", "D", "E", "N", "C", "E", ":", " ", "-", "0", ".", "5">>,
      <<"C", "O", "N", "F", "I", "D", "E", "N", "C", "E", ":", " ", "h", "i", "g", "h">>,
      <<"C", "O", "N", "F", "I", "D", "E", "N", "C", "E", ":", " ", "1", ".", "2", ".", "3">> }

ReasonLines ==
    { <<"R", "E", "A", "S", "O", "N", ":", " ", "s", "e", "c", "u", "r", "i", "t", "y", " ", "r", "e", "v", "i", "e", "w">>,
      <<"R", "E", "A", "S", "O", "N", ":", " ", "n", "o", " ", "a", "g", "e", "n", "t", ":", " ", "h", "a", "c", "k", "e", "r", " ", "n", "e", "e", "d", "e", "d">>,
      <<"R", "E", "A", "S", "O", "N", ":", " ", "l", "o", "w", " ", "c", "o", "n", "f", "i", "d", "e", "n", "c", "e", ":", " ", "0", " ", "h", "e", "r", "e">>,
      <<"R", "E", "A", "S", "O", "N", ":", " ">> }

\* zero or one line of a kind
Optional(lines) == {<< >>} \cup {<<l>> : l \in lines}

\* the texts the routing call may return: the three lines of the requested
\* format, each present or missing, and free text
RoutingReplies ==
    { Join(a \o c \o r, <<"\n">>) :
        a \in Optional(AgentLines), c \in Optional(ConfidenceLines),
        r \in Optional(ReasonLines) }
    \cup { <<"I", " ", "w", "o", "u", "l", "d", " ", "a", "s", "k", " ", "t", "h", "e", " ", "h", "a", "c", "k", "e", "r", ".">>, <<"\n">> }

\* the texts a handoff, presentation or chat call may return
ReplyTexts == { <<"r", "a", "w">>, <<"w", "a", "r", "m">> }

Queries == { <<"h", "i">> }

None == <<"None">>

\* the force_agent arguments: absent, empty, the sentinel, a catalog name,
\* a name no catalog holds
ForceAgents == { None, << >>, conductor, ethical_hacker, <<"n", "o", "b", "o", "d", "y">> }

\* ------------------------------------------------------------- session

\* A Python dict is the sequence of its items in insertion order; a Session
\* holds its context and preferences dicts by reference (an index into the
\* heap of dicts), as two Session objects may hold the same dict.
\* datetime fields (created_at, timestamp) are left out.

\* an Optional[RoutingDecision] that is None
NoDecision == [none |-> TRUE]

IsDecision(d) == DOMAIN d = {"agent", "confidence", "reasoning"}

DictHas(d, key) == \E k \in 1..Len(d) : d[k].key = key

\* d[key] = value: a present key keeps its position
DictSet(d, key, value) ==
    IF DictHas(d, key)
    THEN [k \in 1..Len(d) |-> IF d[k].key = key THEN [key |-> key, value |-> value] ELSE d[k]]
    ELSE Append(d, [key |-> key, value |-> value])

\* seq[start:] of Python, start of either sign
SliceFrom(seq, start) ==
    LET n == Len(seq)
        from == IF start < 0 THEN (IF n + start < 0 THEN 0 ELSE n + start)
                ELSE (IF start > n THEN n ELSE start)
    IN  SubSeq(seq, from + 1, n)

\* seq[:stop] of Python, stop not negative
SliceTo(seq, stop) == SubSeq(seq, 1, IF stop > Len(seq) THEN Len(seq) ELSE stop)

neutral == <<"n", "e", "u", "t", "r", "a", "l">>

\* Turn(...), session.py lines 29-36
Turn(user_message, assistant_response, routing, tokens_used, latency_ms) ==
    [user_message |-> user_message, assistant_response |-> assistant_response,
     routing |-> routing, tokens_used |-> tokens_used, latency_ms |-> latency_ms]

\* Session(id=...), lines 50-66, given fresh dicts for context and preferences
NewSession(id, context, preferences) ==
    [id |-> id, turns |-> << >>, context |-> context, active_surface |-> None,
     preferences |-> preferences, detected_mood |-> neutral]

\* Session.add_turn with the new Turn at the front of the list
add_turn_AtFront(s, user_message, assistant_response, routing, tokens_used, latency_ms) ==
    [s EXCEPT !.turns = <<Turn(user_message, assistant_response, routing,
                               tokens_used, latency_ms)>> \o @]

\* Session.add_turn, lines 68-85
add_turn(s, user_message, assistant_response, routing, tokens_used, latency_ms) ==
    [s EXCEPT !.turns = Append(@, Turn(user_message, assistant_response, routing,
                                       tokens_used, latency_ms))]

\* ChatMessage
ChatMessage(role, content) == [role |-> role, content |-> content]

RECURSIVE TurnMessages(_)
\* lines 100-102: two messages for each turn
TurnMessages(turns) ==
    IF turns = << >> THEN << >>
    ELSE <<ChatMessage("user", turns[1].user_message),
           ChatMessage("assistant", turns[1].assistant_response)>>
         \o TurnMessages(Tail(turns))

\* get_chat_history without the window of line 98
get_chat_history_Unbounded(s, max_turns) == TurnMessages(s.turns)

\* Session.get_chat_history, lines 87-104; the list returned is a new one
get_chat_history(s, max_turns) ==
    TurnMessages(IF max_turns # 0 THEN SliceFrom(s.turns, 0 - max_turns) ELSE s.turns)

RECURSIVE TurnLines(_)
\* lines 119-121
TurnLines(turns) ==
    IF turns = << >> THEN << >>
    ELSE <<<<" ", " ", "U", "s", "e", "r", ":", " ">> \o SliceTo(turns[1].user_message, 100) \o <<".", ".", ".">>,
           <<" ", " ", "A", "s", "s", "i", "s", "t", "a", "n", "t", ":", " ">> \o SliceTo(turns[1].assistant_response, 100) \o <<".", ".", ".">>>>
         \o TurnLines(Tail(turns))

\* lines 126-127 and 132-133: f"  {key}: {value}" for each item
ItemLines(d) == [k \in 1..Len(d) |-> <<" ", " ">> \o d[k].key \o <<":", " ">> \o d[k].value]

RecentHeader == <<"R", "e", "c", "e", "n", "t", " ", "c", "o", "n", "v", "e", "r", "s", "a", "t", "i", "o", "n", ":">>

ContextHeader == <<"\n", "C", "o", "n", "t", "e", "x", "t", ":">>

PreferencesHeader == <<"\n", "U", "s", "e", "r", " ", "p", "r", "e", "f", "e", "r", "e", "n", "c", "e", "s", ":">>

MoodHeader == <<"\n", "D", "e", "t", "e", "c", "t", "e", "d", " ", "m", "o", "o", "d", ":", " ">>

\* get_context_summary without the test of line 136
get_context_summary_AlwaysMood(s, dicts) ==
    Join((IF s.turns # << >>
          THEN <<RecentHeader>> \o TurnLines(SliceFrom(s.turns, -3)) ELSE << >>)
         \o (IF dicts[s.context] # << >>
             THEN <<ContextHeader>> \o ItemLines(dicts[s.context]) ELSE << >>)
         \o (IF dicts[s.preferences] # << >>
             THEN <<PreferencesHeader>> \o ItemLines(dicts[s.preferences]) ELSE << >>)
         \o <<MoodHeader \o s.detected_mood>>,
         <<"\n">>)

\* Session.get_context_summary, lines 106-139
get_context_summary(s, dicts) ==
    Join((IF s.turns # << >>
          THEN <<RecentHeader>> \o TurnLines(SliceFrom(s.turns, -3)) ELSE << >>)
         \o (IF dicts[s.context] # << >>
             THEN <<ContextHeader>> \o ItemLines(dicts[s.context]) ELSE << >>)
         \o (IF dicts[s.preferences] # << >>
             THEN <<PreferencesHeader>> \o ItemLines(dicts[s.preferences]) ELSE << >>)
         \o (IF s.detected_mood # neutral
             THEN <<MoodHeader \o s.detected_mood>> ELSE << >>),
         <<"\n">>)

\* Session.update_context, lines 141-143: the effect on the dict
update_context(d, key, value) == DictSet(d, key, value)

\* Session.set_mood, lines 145-147
set_mood(s, mood) == [s EXCEPT !.detected_mood = mood]

RECURSIVE SumTokens(_)
SumTokens(turns) ==
    IF turns = << >> THEN 0 ELSE turns[1].tokens_used + SumTokens(Tail(turns))

\* total_tokens reading the tokens of the latest turn only
total_tokens_LastTurn(s) ==
    IF s.turns = << >> THEN 0 ELSE s.turns[Len(s.turns)].tokens_used

\* the property total_tokens, lines 149-152
total_tokens(s) == SumTokens(s.turns)

\* the property total_turns, lines 154-157
total_turns(s) == Len(s.turns)

\* lines 165-176: the dict of one Turn
TurnToDict(t) ==
    [user_message |-> t.user_message,
     assistant_response |-> t.assistant_response,
     routing |-> IF IsDecision(t.routing)
                 THEN [agent |-> t.routing.agent,
                       confidence |-> t.routing.confidence,
                       reasoning |-> t.routing.reasoning]
                 ELSE NoDecision,
     tokens_used |-> t.tokens_used,
     latency_ms |-> t.latency_ms]

\* Session.to_dict, lines 159-183: a new dict with a new list of turn dicts;
\* "context" and "preferences" are the Session's own dict objects
to_dict(s) ==
    [id |-> s.id,
     turns |-> [k \in 1..Len(s.turns) |-> TurnToDict(s.turns[k])],
     context |-> s.context,
     preferences |-> s.preferences,
     detected_mood |-> s.detected_mood,
     active_surface |-> s.active_surface]

\* dict.get(key, default) on a dict with string keys
Get(data, key, default) == IF key \in DOMAIN data THEN data[key] ELSE default

\* lines 197-213 reading every turn's tokens_used as the default
TurnFromDict_NoTokens(turn_data) ==
    Turn(turn_data.user_message, turn_data.assistant_response,
         IF IsDecision(Get(turn_data, "routing", NoDecision))
         THEN [agent |-> turn_data.routing.agent,
               confidence |-> turn_data.routing.confidence,
               reasoning |-> turn_data.routing.reasoning]
         ELSE NoDecision,
         0, Get(turn_data, "latency_ms", 0))

\* lines 197-213: the Turn of one turn dict
TurnFromDict(turn_data) ==
    Turn(turn_data.user_message, turn_data.assistant_response,
         IF IsDecision(Get(turn_data, "routing", NoDecision))
         THEN [agent |-> turn_data.routing.agent,
               confidence |-> turn_data.routing.confidence,
               reasoning |-> turn_data.routing.reasoning]
         ELSE NoDecision,
         Get(turn_data, "tokens_used", 0), Get(turn_data, "latency_ms", 0))

\* Session.from_dict, lines 185-215, for a dict that has "context" and
\* "preferences": the new Session holds the very dicts the data holds
from_dict(data) ==
    [id |-> data.id,
     turns |-> [k \in 1..Len(Get(data, "turns", << >>)) |-> TurnFromDict(data.turns[k])],
     context |-> data.context,
     active_surface |-> Get(data, "active_surface", None),
     preferences |-> data.preferences,
     detected_mood |-> Get(data, "detected_mood", neutral)]

\* ------------------------------------------------------ sample sessions

Item(key, value) == [key |-> key, value |-> value]

SampleDecision ==
    [agent |-> ethical_hacker, confidence |-> Rat(9, 10), reasoning |-> <<"s", "e", "c", "u", "r", "i", "t", "y">>]

SampleLetters == <<"a", "b", "c", "d", "e", "f", "g", "h", "i", "j", "k">>

\* eleven turns, one more than the conductor's window of history
SampleTurns ==
    [k \in 1..Len(SampleLetters) |->
        Turn(<<"q", SampleLetters[k]>>, <<"r", SampleLetters[k]>>,
             IF k = 2 THEN SampleDecision ELSE NoDecision,
             IF k % 2 = 0 THEN 5 ELSE 0, 12)]

\* the Sessions a caller of respond may hold: one with a context item and
\* no turns yet, and one with eleven turns, a context item, a preference and
\* a mood
SampleMemories ==
    { [heap |-> <<NewSession(<<"a", "1", "b", "2", "c", "3", "d", "4">>, 1, 2)>>,
       dicts |-> << <<Item(<<"t", "o", "p", "i", "c">>, <<"t", "l", "s">>)>>, << >> >>],
      [heap |-> <<[NewSession(<<"a", "1", "b", "2", "c", "3", "d", "4">>, 1, 2) EXCEPT
                     !.turns = SampleTurns, !.detected_mood = <<"t", "i", "r", "e", "d">>]>>,
       dicts |-> << <<Item(<<"t", "o", "p", "i", "c">>, <<"t", "l", "s">>)>>,
                    <<Item(<<"t", "o", "n", "e">>, <<"b", "r", "i", "e", "f">>)>> >>] }

\* no request handler of the server is running
NoHandler == [kind |-> "none"]

\* nothing has been sent to the caller of /chat or on the websocket
NoEvents == [http |-> << >>, ws |-> << >>]

\* the snapshot file does not exist
NoFile == [kind |-> "absent"]

\* delete_session has not returned True: the ids it did so for, and those
\* of them no Session has been created under since
NoDeletions == [ever |-> {}, gone |-> {}]

\* no streaming call has been made
NoStream == [kind |-> "none"]

\* ----------------------------------------------------------- conductor

\* ConductorConfig
conductor_model == <<"a", "i", "-", "w", "a", "y", "-", "y", "o", "l", "l", "a", "y", "a", "h">>

default_agent_model_prefix == <<"a", "i", "-", "w", "a", "y", "-">>

routing_temperature == Rat(3, 10)

response_temperature == Rat(8, 10)

max_context_turns == 10

VARIABLES
    agents,               \* Conductor.agents: the dict, as its items in key order
    pc,                   \* where the respond call stands
    query,                \* respond's query argument
    session,              \* respond's session argument: a reference into heap
    force_agent,          \* respond's force_agent argument
    response,             \* the text the routing call returned
    parsed,               \* the locals of _parse_routing_response after line 133
    routing,              \* respond's local `routing`
    calls,                \* the backend calls this respond call has issued
    replies,              \* the texts the backend returned to them, in order
    specialist_response,  \* respond's local `specialist_response`
    message,              \* ConductorResponse.message
    raised,               \* the exception respond ended with, "" if none
    heap,                 \* the Session objects, by reference
    dicts,                \* the context and preferences dict objects, by reference
    store,                \* SessionManager._sessions: items of key and reference
    handler,              \* the request handler of the server that is running
    outbox,               \* what the server has sent on each connection for its last request
    suspended,            \* the /stream handler that waits at an await
    disk,                 \* the snapshot file at the persist path
    persist_path,         \* whether the SessionManager has a persist path
    deleted,              \* the ids delete_session has returned True for
    stream,               \* a streaming backend call and its iterator
    last_op,              \* the Session operation called last
    result                \* what that operation returned

condVars == <<agents, pc, query, session, force_agent, response, parsed, routing,
              calls, replies, specialist_response, message, raised>>

memVars == <<heap, dicts>>

diskVars == <<disk, persist_path, deleted>>

handlerVars == <<handler, outbox, suspended>>

serverVars == <<store, handlerVars, diskVars, stream>>

opVars == <<last_op, result>>

vars == <<condVars, memVars, serverVars, opVars>>

\* a request to the backend: the client method, the model, the prompt of a
\* generate call or the messages of a chat call, the temperature, and the
\* step of respond that issued it
Call(op, model, input, temperature, step) ==
    [op |-> op, model |-> model, input |-> input, temperature |-> temperature,
     step |-> step]

\* str.replace('-', ' ')
ReplaceDash(s) == [k \in 1..Len(s) |-> IF s[k] = "-" THEN " " ELSE s[k]]

\* _build_agent_catalog, lines 64-71
build_agent_catalog(agts) ==
    Join([k \in 1..Len(agts) |->
            <<"-", " ">> \o agts[k].name \o <<" ", "(">> \o agts[k].category \o <<")", ":", " ">>
            \o (IF Len(agts[k].role) > 150
                THEN SliceTo(agts[k].role, 150) \o <<".", ".", ".">>
                ELSE agts[k].role)],
         <<"\n">>)

NoPriorContext == <<"N", "o", " ", "p", "r", "i", "o", "r", " ", "c", "o", "n", "t", "e", "x", "t", ".">>

\* route, lines 81-98
RoutingPrompt(agts, q, s, dcts) ==
    <<"Y", "o", "u", " ", "a", "r", "e", " ", "t", "h", "e", " ", "r", "o", "u", "t", "i", "n", "g", " ", "c", "o", "m", "p", "o", "n", "e", "n", "t", " ", "o", "f", " ", "Y", "o", "l", "l", "a", "y", "a", "h", ".", "\n", "\n", "A", "n", "a", "l", "y", "z", "e", " ", "t", "h", "i", "s", " ", "q", "u", "e", "r", "y", " ", "a", "n", "d", " ", "d", "e", "c", "i", "d", "e", " ", "w", "h", "i", "c", "h", " ", "s", "p", "e", "c", "i", "a", "l", "i", "s", "t", " ", "a", "g", "e", "n", "t", " ", "s", "h", "o", "u", "l", "d", " ", "h", "a", "n", "d", "l", "e", " ", "i", "t", ".", "\n", "I", "f", " ", "n", "o", " ", "s", "p", "e", "c", "i", "a", "l", "i", "s", "t", " ", "i", "s", " ", "n", "e", "e", "d", "e", "d", " ", "(", "g", "e", "n", "e", "r", "a", "l", " ", "c", "o", "n", "v", "e", "r", "s", "a", "t", "i", "o", "n", ",", " ", "s", "i", "m", "p", "l", "e", " ", "q", "u", "e", "s", "t", "i", "o", "n", "s", ")", ",", " ", "r", "e", "s", "p", "o", "n", "d", " ", "w", "i", "t", "h", " ", "\"", "c", "o", "n", "d", "u", "c", "t", "o", "r", "\"", ".", "\n", "\n", "A", "v", "a", "i", "l", "a", "b", "l", "e", " ", "s", "p", "e", "c", "i", "a", "l", "i", "s", "t", "s", ":", "\n">>
    \o build_agent_catalog(agts)
    \o <<"\n", "\n", "Q", "u", "e", "r", "y", ":", " ">> \o q
    \o <<"\n", "\n", "C", "o", "n", "t", "e", "x", "t", " ", "f", "r", "o", "m", " ", "c", "o", "n", "v", "e", "r", "s", "a", "t", "i", "o", "n", ":", "\n">>
    \o (IF s.turns # << >> THEN get_context_summary(s, dcts) ELSE NoPriorContext)
    \o <<"\n", "\n", "R", "e", "s", "p", "o", "n", "d", " ", "i", "n", " ", "t", "h", "i", "s", " ", "e", "x", "a", "c", "t", " ", "f", "o", "r", "m", "a", "t", ":", "\n", "A", "G", "E", "N", "T", ":", " ", "<", "a", "g", "e", "n", "t", "-", "n", "a", "m", "e", ">", "\n", "C", "O", "N", "F", "I", "D", "E", "N", "C", "E", ":", " ", "<", "0", ".", "0", "-", "1", ".", "0", ">", "\n", "R", "E", "A", "S", "O", "N", ":", " ", "<", "b", "r", "i", "e", "f", " ", "e", "x", "p", "l", "a", "n", "a", "t", "i", "o", "n", ">", "\n">>

\* handoff, lines 174-184
HandoffPrompt(q, agent_name, s, dcts) ==
    <<"C", "o", "n", "t", "e", "x", "t", " ", "f", "r", "o", "m", " ", "c", "o", "n", "v", "e", "r", "s", "a", "t", "i", "o", "n", ":", "\n">> \o get_context_summary(s, dcts)
    \o <<"\n", "\n", "U", "s", "e", "r", " ", "q", "u", "e", "r", "y", ":", " ">> \o q
    \o <<"\n", "\n", "P", "l", "e", "a", "s", "e", " ", "r", "e", "s", "p", "o", "n", "d", " ", "a", "s", " ", "t", "h", "e", " ">> \o ReplaceDash(agent_name)
    \o <<" ", "s", "p", "e", "c", "i", "a", "l", "i", "s", "t", ".", "\n", "F", "o", "c", "u", "s", " ", "o", "n", " ", "y", "o", "u", "r", " ", "a", "r", "e", "a", " ", "o", "f", " ", "e", "x", "p", "e", "r", "t", "i", "s", "e", ".", " ", "B", "e", " ", "h", "e", "l", "p", "f", "u", "l", " ", "a", "n", "d", " ", "s", "p", "e", "c", "i", "f", "i", "c", ".", "\n">>

\* the presentation prompt without the specialist's text
PresentationPrompt_NoSpecialistText(q, agent_name, specialist_text) ==
    <<"Y", "o", "u", " ", "a", "r", "e", " ", "Y", "o", "l", "l", "a", "y", "a", "h", " ", "p", "r", "e", "s", "e", "n", "t", "i", "n", "g", " ", "i", "n", "f", "o", "r", "m", "a", "t", "i", "o", "n", " ", "f", "r", "o", "m", " ", "a", " ", "s", "p", "e", "c", "i", "a", "l", "i", "s", "t", ".", "\n", "\n", "T", "h", "e", " ">>
    \o ReplaceDash(agent_name)
    \o <<" ", "j", "u", "s", "t", " ", "p", "r", "o", "v", "i", "d", "e", "d", " ", "t", "h", "i", "s", " ", "r", "e", "s", "p", "o", "n", "s", "e", " ", "t", "o", " ", "t", "h", "e", " ", "u", "s", "e", "r", "'", "s", " ", "q", "u", "e", "s", "t", "i", "o", "n", ":", "\n", "\n", "S", "P", "E", "C", "I", "A", "L", "I", "S", "T", " ", "R", "E", "S", "P", "O", "N", "S", "E", ":", "\n">>
    \o <<"\n", "\n", "U", "S", "E", "R", "'", "S", " ", "O", "R", "I", "G", "I", "N", "A", "L", " ", "Q", "U", "E", "S", "T", "I", "O", "N", ":", "\n">> \o q
    \o <<"\n", "\n", "P", "r", "e", "s", "e", "n", "t", " ", "t", "h", "i", "s", " ", "i", "n", "f", "o", "r", "m", "a", "t", "i", "o", "n", " ", "i", "n", " ", "y", "o", "u", "r", " ", "o", "w", "n", " ", "v", "o", "i", "c", "e", " ", "(", "w", "a", "r", "m", ",", " ", "r", "e", "a", "l", ",", " ", "p", "l", "a", "y", "f", "u", "l", "l", "y", " ", "o", "p", "i", "n", "i", "o", "n", "a", "t", "e", "d", ")", ".", "\n", "Y", "o", "u", " ", "c", "a", "n", ":", "\n", "-", " ", "S", "u", "m", "m", "a", "r", "i", "z", "e", " ", "i", "f", " ", "t", "h", "e", " ", "r", "e", "s", "p", "o", "n", "s", "e", " ", "i", "s", " ", "v", "e", "r", "y", " ", "t", "e", "c", "h", "n", "i", "c", "a", "l", "\n", "-", " ", "A", "d", "d", " ", "e", "n", "c", "o", "u", "r", "a", "g", "i", "n", "g", " ", "c", "o", "m", "m", "e", "n", "t", "s", "\n", "-", " ", "A", "s", "k", " ", "i", "f", " ", "t", "h", "e", "y", " ", "n", "e", "e", "d", " ", "c", "l", "a", "r", "i", "f", "i", "c", "a", "t", "i", "o", "n", "\n", "-", " ", "C", "e", "l", "e", "b", "r", "a", "t", "e", " ", "i", "f", " ", "t", "h", "e", "y", "'", "r", "e", " ", "m", "a", "k", "i", "n", "g", " ", "p", "r", "o", "g", "r", "e", "s", "s", "\n", "\n", "K", "e", "e", "p", " ", "y", "o", "u", "r", " ", "p", "e", "r", "s", "o", "n", "a", "l", "i", "t", "y", " ", "b", "u", "t", " ", "m", "a", "k", "e", " ", "s", "u", "r", "e", " ", "t", "h", "e", " ", "s", "p", "e", "c", "i", "a", "l", "i", "s", "t", "'", "s", " ", "k", "e", "y", " ", "i", "n", "f", "o", "r", "m", "a", "t", "i", "o", "n", " ", "c", "o", "m", "e", "s", " ", "t", "h", "r", "o", "u", "g", "h", ".", "\n", "D", "o", "n", "'", "t", " ", "s", "a", "y", " ", "\"", "t", "h", "e", " ", "s", "p", "e", "c", "i", "a", "l", "i", "s", "t", " ", "s", "a", "i", "d", "\"", " ", "-", " ", "j", "u", "s", "t", " ", "p", "r", "e", "s", "e", "n", "t", " ", "i", "t", " ", "n", "a", "t", "u", "r", "a", "l", "l", "y", " ", "a", "s", " ", "i", "f", " ", "y", "o", "u", "'", "r", "e", " ", "e", "x", "p", "l", "a", "i", "n", "i", "n", "g", " ", "i", "t", ".", "\n">>

\* _present_specialist_response, lines 280-299
PresentationPrompt(q, agent_name, specialist_text) ==
    <<"Y", "o", "u", " ", "a", "r", "e", " ", "Y", "o", "l", "l", "a", "y", "a", "h", " ", "p", "r", "e", "s", "e", "n", "t", "i", "n", "g", " ", "i", "n", "f", "o", "r", "m", "a", "t", "i", "o", "n", " ", "f", "r", "o", "m", " ", "a", " ", "s", "p", "e", "c", "i", "a", "l", "i", "s", "t", ".", "\n", "\n", "T", "h", "e", " ">>
    \o ReplaceDash(agent_name)
    \o <<" ", "j", "u", "s", "t", " ", "p", "r", "o", "v", "i", "d", "e", "d", " ", "t", "h", "i", "s", " ", "r", "e", "s", "p", "o", "n", "s", "e", " ", "t", "o", " ", "t", "h", "e", " ", "u", "s", "e", "r", "'", "s", " ", "q", "u", "e", "s", "t", "i", "o", "n", ":", "\n", "\n", "S", "P", "E", "C", "I", "A", "L", "I", "S", "T", " ", "R", "E", "S", "P", "O", "N", "S", "E", ":", "\n">>
    \o specialist_text
    \o <<"\n", "\n", "U", "S", "E", "R", "'", "S", " ", "O", "R", "I", "G", "I", "N", "A", "L", " ", "Q", "U", "E", "S", "T", "I", "O", "N", ":", "\n">> \o q
    \o <<"\n", "\n", "P", "r", "e", "s", "e", "n", "t", " ", "t", "h", "i", "s", " ", "i", "n", "f", "o", "r", "m", "a", "t", "i", "o", "n", " ", "i", "n", " ", "y", "o", "u", "r", " ", "o", "w", "n", " ", "v", "o", "i", "c", "e", " ", "(", "w", "a", "r", "m", ",", " ", "r", "e", "a", "l", ",", " ", "p", "l", "a", "y", "f", "u", "l", "l", "y", " ", "o", "p", "i", "n", "i", "o", "n", "a", "t", "e", "d", ")", ".", "\n", "Y", "o", "u", " ", "c", "a", "n", ":", "\n", "-", " ", "S", "u", "m", "m", "a", "r", "i", "z", "e", " ", "i", "f", " ", "t", "h", "e", " ", "r", "e", "s", "p", "o", "n", "s", "e", " ", "i", "s", " ", "v", "e", "r", "y", " ", "t", "e", "c", "h", "n", "i", "c", "a", "l", "\n", "-", " ", "A", "d", "d", " ", "e", "n", "c", "o", "u", "r", "a", "g", "i", "n", "g", " ", "c", "o", "m", "m", "e", "n", "t", "s", "\n", "-", " ", "A", "s", "k", " ", "i", "f", " ", "t", "h", "e", "y", " ", "n", "e", "e", "d", " ", "c", "l", "a", "r", "i", "f", "i", "c", "a", "t", "i", "o", "n", "\n", "-", " ", "C", "e", "l", "e", "b", "r", "a", "t", "e", " ", "i", "f", " ", "t", "h", "e", "y", "'", "r", "e", " ", "m", "a", "k", "i", "n", "g", " ", "p", "r", "o", "g", "r", "e", "s", "s", "\n", "\n", "K", "e", "e", "p", " ", "y", "o", "u", "r", " ", "p", "e", "r", "s", "o", "n", "a", "l", "i", "t", "y", " ", "b", "u", "t", " ", "m", "a", "k", "e", " ", "s", "u", "r", "e", " ", "t", "h", "e", " ", "s", "p", "e", "c", "i", "a", "l", "i", "s", "t", "'", "s", " ", "k", "e", "y", " ", "i", "n", "f", "o", "r", "m", "a", "t", "i", "o", "n", " ", "c", "o", "m", "e", "s", " ", "t", "h", "r", "o", "u", "g", "h", ".", "\n", "D", "o", "n", "'", "t", " ", "s", "a", "y", " ", "\"", "t", "h", "e", " ", "s", "p", "e", "c", "i", "a", "l", "i", "s", "t", " ", "s", "a", "i", "d", "\"", " ", "-", " ", "j", "u", "s", "t", " ", "p", "r", "e", "s", "e", "n", "t", " ", "i", "t", " ", "n", "a", "t", "u", "r", "a", "l", "l", "y", " ", "a", "s", " ", "i", "f", " ", "y", "o", "u", "'", "r", "e", " ", "e", "x", "p", "l", "a", "i", "n", "i", "n", "g", " ", "i", "t", ".", "\n">>

\* _respond_directly, lines 256-257: the history, a new list, and the query
ChatMessages(q, s) ==
    Append(get_chat_history(s, max_context_turns), ChatMessage("user", q))

\* route, lines 101-105
RouteCall(agts, q, s, dcts) ==
    Call("generate", conductor_model, RoutingPrompt(agts, q, s, dcts),
         routing_temperature, "route")

\* handoff, lines 187-194
HandoffCall(q, agent_name, s, dcts) ==
    Call("generate", default_agent_model_prefix \o agent_name,
         HandoffPrompt(q, agent_name, s, dcts), response_temperature, "handoff")

\* _present_specialist_response, lines 301-305
PresentCall(q, agent_name, specialist_text) ==
    Call("generate", conductor_model,
         PresentationPrompt(q, agent_name, specialist_text),
         response_temperature, "present")

\* _respond_directly, lines 259-263
ChatCall(q, s) ==
    Call("chat", conductor_model, ChatMessages(q, s), response_temperature,
         "direct")

\* handoff, line 171: f"Agent {agent_name} not found."
AgentNotFound(agent_name) == <<"A", "g", "e", "n", "t", " ">> \o agent_name \o <<" ", "n", "o", "t", " ", "f", "o", "u", "n", "d", ".">>

\* lines 222-226 building the decision with the defaults of the parser
ForcedDecision_Defaults(agent) ==
    [agent |-> agent, confidence |-> DefaultConfidence,
     reasoning |-> DefaultReasoning]

\* respond, lines 222-226
ForcedDecision(agent) ==
    [agent |-> agent, confidence |-> Rat(1, 1),
     reasoning |-> <<"A", "g", "e", "n", "t", " ", "f", "o", "r", "c", "e", "d", " ", "b", "y", " ", "r", "e", "q", "u", "e", "s", "t">>]

\* `if force_agent:` a string is true unless it is None or empty
Truthy(s) == s # None /\ s # << >>

\* respond, lines 230-241, up to the first backend call of step 2: the chat
\* call, or the handoff call, or, when handoff finds no such agent and
\* returns its message without a call, the presentation call
Step2(q, s, dcts, r, issued) ==
    IF r.agent = conductor
    THEN /\ calls' = Append(issued, ChatCall(q, s))
         /\ specialist_response' = None
         /\ pc' = "chat"
    ELSE IF InCatalog(agents, r.agent)
    THEN /\ calls' = Append(issued, HandoffCall(q, r.agent, s, dcts))
         /\ specialist_response' = None
         /\ pc' = "handoff"
    ELSE /\ calls' = Append(issued, PresentCall(q, r.agent, AgentNotFound(r.agent)))
         /\ specialist_response' = AgentNotFound(r.agent)
         /\ pc' = "present"

\* respond has not been called
ConductorIdle ==
    /\ pc = "idle"
    /\ query = None
    /\ session = 0
    /\ force_agent = None
    /\ response = None
    /\ parsed = NoDecision
    /\ routing = NoDecision
    /\ calls = << >>
    /\ replies = << >>
    /\ specialist_response = None
    /\ message = None
    /\ raised = ""

\* the state of a Conductor on which respond has not been called
ConductorInit ==
    /\ agents \in {DictOf(l) : l \in AgentLists}
    /\ ConductorIdle

\* no request has reached the server
NoRequests ==
    /\ handler = NoHandler
    /\ outbox = NoEvents
    /\ suspended = NoHandler

\* no persist path and no snapshot file
NoSnapshot ==
    /\ disk = NoFile
    /\ persist_path = FALSE
    /\ deleted = NoDeletions

\* no server and no caller of the Session operations
Init ==
    /\ ConductorInit
    /\ \E m \in SampleMemories : heap = m.heap /\ dicts = m.dicts
    /\ store = << >>
    /\ NoRequests
    /\ NoSnapshot
    /\ stream = NoStream
    /\ last_op = [op |-> "none", ref |-> 0]
    /\ result = None

\* respond(q, session, f) where session refers to the Session s, lines
\* 217-228: a forced agent makes the decision, otherwise route builds its
\* prompt and issues the routing call
RespondCalled(q, ref, s, dcts, f) ==
    /\ query' = q
    /\ session' = ref
    /\ force_agent' = f
    /\ response' = None
    /\ parsed' = NoDecision
    /\ message' = None
    /\ raised' = ""
    /\ replies' = << >>
    /\ IF Truthy(f)
       THEN /\ routing' = ForcedDecision(f)
            /\ Step2(q, s, dcts, ForcedDecision(f), << >>)
       ELSE /\ routing' = NoDecision
            /\ calls' = <<RouteCall(agents, q, s, dcts)>>
            /\ specialist_response' = None
            /\ pc' = "route"
    /\ UNCHANGED agents

\* a caller other than the server calls respond
Respond(q, ref, f) ==
    /\ pc \in {"idle", "done", "failed"}
    /\ RespondCalled(q, ref, heap[ref], dicts, f)
    /\ UNCHANGED <<memVars, serverVars, opVars>>

\* the routing call returns text and the for loop of lines 138-141 walks the
\* catalog from its last entry to its first
RouteReturns_OtherOrder(text) ==
    /\ pc = "route"
    /\ response' = text
    /\ replies' = Append(replies, text)
    /\ parsed' = ParseFields(text)
    /\ LET backwards == [k \in 1..Len(agents) |-> agents[Len(agents) + 1 - k]]
           d == parse_routing_response(backwards, text)
       IN  IF IsExc(d)
           THEN /\ raised' = d.exc
                /\ pc' = "failed"
                /\ UNCHANGED <<routing, calls, specialist_response>>
           ELSE /\ routing' = d
                /\ raised' = raised
                /\ Step2(query, heap[session], dicts, d, calls)
    /\ UNCHANGED <<agents, query, session, force_agent, message>>
    /\ UNCHANGED <<memVars, serverVars, opVars>>

\* the routing call returns text: route parses it (line 108) and respond
\* goes on to step 2
RouteReturns(text) ==
    /\ pc = "route"
    /\ response' = text
    /\ replies' = Append(replies, text)
    /\ parsed' = ParseFields(text)
    /\ LET d == parse_routing_response(agents, text)
       IN  IF IsExc(d)
           THEN /\ raised' = d.exc
                /\ pc' = "failed"
                /\ UNCHANGED <<routing, calls, specialist_response>>
           ELSE /\ routing' = d
                /\ raised' = raised
                /\ Step2(query, heap[session], dicts, d, calls)
    /\ UNCHANGED <<agents, query, session, force_agent, message>>
    /\ UNCHANGED <<memVars, serverVars, opVars>>

\* respond returning the specialist's text without the presentation call
HandoffReturns_NoPresentation(text) ==
    /\ pc = "handoff"
    /\ specialist_response' = text
    /\ replies' = Append(replies, text)
    /\ message' = text
    /\ pc' = "done"
    /\ UNCHANGED <<agents, query, session, force_agent, response, parsed,
                   routing, calls, raised>>
    /\ UNCHANGED <<memVars, serverVars, opVars>>

\* the handoff call returns (line 196) and _present_specialist_response
\* issues the presentation call
HandoffReturns(text) ==
    /\ pc = "handoff"
    /\ specialist_response' = text
    /\ replies' = Append(replies, text)
    /\ calls' = Append(calls, PresentCall(query, routing.agent, text))
    /\ pc' = "present"
    /\ UNCHANGED <<agents, query, session, force_agent, response, parsed,
                   routing, message, raised>>
    /\ UNCHANGED <<memVars, serverVars, opVars>>

\* respond returning the specialist's text after the presentation call
PresentReturns_KeepsRaw(text) ==
    /\ pc = "present"
    /\ message' = specialist_response
    /\ replies' = Append(replies, text)
    /\ pc' = "done"
    /\ UNCHANGED <<agents, query, session, force_agent, response, parsed,
                   routing, calls, specialist_response, raised>>
    /\ UNCHANGED <<memVars, serverVars, opVars>>

\* the presentation call returns (line 307): respond returns, lines 246-251
PresentReturns(text) ==
    /\ pc = "present"
    /\ message' = text
    /\ replies' = Append(replies, text)
    /\ pc' = "done"
    /\ UNCHANGED <<agents, query, session, force_agent, response, parsed,
                   routing, calls, specialist_response, raised>>
    /\ UNCHANGED <<memVars, serverVars, opVars>>

\* the chat call returns and respond records the turn in the Session itself
ChatReturns_RecordsTurn(text) ==
    /\ pc = "chat"
    /\ message' = text
    /\ replies' = Append(replies, text)
    /\ pc' = "done"
    /\ heap' = [heap EXCEPT ![session] = add_turn(@, query, text, routing, 0, 0)]
    /\ UNCHANGED <<agents, query, session, force_agent, response, parsed,
                   routing, calls, specialist_response, raised>>
    /\ UNCHANGED <<dicts, serverVars, opVars>>

\* the chat call returns (line 265): respond returns, lines 246-251
ChatReturns(text) ==
    /\ pc = "chat"
    /\ message' = text
    /\ replies' = Append(replies, text)
    /\ pc' = "done"
    /\ UNCHANGED <<agents, query, session, force_agent, response, parsed,
                   routing, calls, specialist_response, raised>>
    /\ UNCHANGED <<memVars, serverVars, opVars>>

\* respond catching the error of a backend call and returning an apology
BackendFails_Swallowed ==
    /\ pc \in {"route", "handoff", "present", "chat"}
    /\ raised' = "BackendError"
    /\ message' = << >>
    /\ pc' = "done"
    /\ UNCHANGED <<agents, query, session, force_agent, response, parsed,
                   routing, calls, replies, specialist_response>>
    /\ UNCHANGED <<memVars, serverVars, opVars>>

\* a backend call raises (raise_for_status, a timeout): nothing in respond
\* catches it
BackendFails ==
    /\ pc \in {"route", "handoff", "present", "chat"}
    /\ raised' = "BackendError"
    /\ pc' = "failed"
    /\ UNCHANGED <<agents, query, session, force_agent, response, parsed,
                   routing, calls, replies, specialist_response, message>>
    /\ UNCHANGED <<memVars, serverVars, opVars>>

Next ==
    \/ \E q \in Queries, ref \in DOMAIN heap, f \in ForceAgents : Respond(q, ref, f)
    \/ \E text \in RoutingReplies : RouteReturns(text)
    \/ \E text \in ReplyTexts : HandoffReturns(text)
    \/ \E text \in ReplyTexts : PresentReturns(text)
    \/ \E text \in ReplyTexts : ChatReturns(text)
    \/ BackendFails

Spec == Init /\ [][Next]_vars

\* ------------------------------------------------- the Session operations

MaxTurns == 2

MaxSessions == 2

\* the arguments of add_turn
TurnArgs ==
    { Turn(<<"h", "e", "l", "l", "o">>, <<"h", "e", "y">>, NoDecision, 0, 0),
      Turn(<<"i", "s", " ", "t", "l", "s", " ", "s", "a", "f", "e">>, <<"m", "o", "s", "t", "l", "y">>, SampleDecision, 5, 12) }

ContextKeys == { <<"t", "o", "p", "i", "c">> }

ContextValues == { <<"t", "l", "s">>, <<"d", "n", "s">> }

Moods == { neutral, <<"t", "i", "r", "e", "d">> }

HistoryLengths == {0, 1, 10}

\* a Session operation and the Session it was called on
Op(name, ref) == [op |-> name, ref |-> ref]

\* one Session: a new one, or one that from_dict built from stored data
\* with a preference
InitSession ==
    /\ agents = << >>
    /\ ConductorIdle
    /\ heap = <<NewSession(<<"a", "1", "b", "2", "c", "3", "d", "4">>, 1, 2)>>
    /\ dicts \in { << << >>, << >> >>,
                   << << >>, <<Item(<<"t", "o", "n", "e">>, <<"b", "r", "i", "e", "f">>)>> >> }
    /\ store = << >>
    /\ NoRequests
    /\ NoSnapshot
    /\ stream = NoStream
    /\ last_op = Op("none", 0)
    /\ result = None

\* session.add_turn(...)
AddTurn(ref, t) ==
    /\ Len(heap[ref].turns) < MaxTurns
    /\ heap' = [heap EXCEPT ![ref] =
                  add_turn(@, t.user_message, t.assistant_response, t.routing,
                           t.tokens_used, t.latency_ms)]
    /\ last_op' = Op("add_turn", ref)
    /\ result' = t
    /\ UNCHANGED <<dicts, condVars, serverVars>>

\* session.update_context(key, value)
UpdateContext(ref, key, value) ==
    /\ dicts' = [dicts EXCEPT ![heap[ref].context] = update_context(@, key, value)]
    /\ last_op' = Op("update_context", ref)
    /\ result' = None
    /\ UNCHANGED <<heap, condVars, serverVars>>

\* session.set_mood(mood)
SetMood(ref, mood) ==
    /\ heap' = [heap EXCEPT ![ref] = set_mood(@, mood)]
    /\ last_op' = Op("set_mood", ref)
    /\ result' = None
    /\ UNCHANGED <<dicts, condVars, serverVars>>

\* session.get_chat_history(max_turns)
GetChatHistory(ref, max_turns) ==
    /\ last_op' = [op |-> "get_chat_history", ref |-> ref, max_turns |-> max_turns]
    /\ result' = get_chat_history(heap[ref], max_turns)
    /\ UNCHANGED <<memVars, condVars, serverVars>>

\* session.get_context_summary()
GetContextSummary(ref) ==
    /\ last_op' = Op("get_context_summary", ref)
    /\ result' = get_context_summary(heap[ref], dicts)
    /\ UNCHANGED <<memVars, condVars, serverVars>>

\* session.to_dict()
ToDict(ref) ==
    /\ last_op' = Op("to_dict", ref)
    /\ result' = to_dict(heap[ref])
    /\ UNCHANGED <<memVars, condVars, serverVars>>

\* Session.from_dict(session.to_dict()): a new Session object; result is
\* the reference to it
RoundTrip(ref) ==
    /\ Len(heap) < MaxSessions
    /\ heap' = Append(heap, from_dict(to_dict(heap[ref])))
    /\ last_op' = Op("from_dict", ref)
    /\ result' = Len(heap) + 1
    /\ UNCHANGED <<dicts, condVars, serverVars>>

NextSession ==
    \/ \E ref \in DOMAIN heap, t \in TurnArgs : AddTurn(ref, t)
    \/ \E ref \in DOMAIN heap, key \in ContextKeys, value \in ContextValues :
         UpdateContext(ref, key, value)
    \/ \E ref \in DOMAIN heap, mood \in Moods : SetMood(ref, mood)
    \/ \E ref \in DOMAIN heap, n \in HistoryLengths : GetChatHistory(ref, n)
    \/ \E ref \in DOMAIN heap : GetContextSummary(ref)
    \/ \E ref \in DOMAIN heap : ToDict(ref)
    \/ \E ref \in DOMAIN heap : RoundTrip(ref)

SpecSession == InitSession /\ [][NextSession]_vars

\* ------------------------------------------------------ session manager

\* self._sessions[key] of a key the dict has
DictValue(d, key) == d[CHOOSE k \in 1..Len(d) : d[k].key = key].value

\* what create_session and get_or_create_session leave behind and return
Outcome(st, hp, dcts, ref) == [store |-> st, heap |-> hp, dicts |-> dcts, ref |-> ref]

\* create_session with a store that holds the new Session only
create_session_Resets(st, hp, dcts, id) ==
    Outcome(<<[key |-> id, value |-> Len(hp) + 1]>>,
            Append(hp, NewSession(id, Len(dcts) + 1, Len(dcts) + 2)),
            dcts \o << << >>, << >> >>,
            Len(hp) + 1)

\* SessionManager.create_session, lines 232-236, when Session() draws id:
\* the new Session and its two dicts are new objects
create_session(st, hp, dcts, id) ==
    Outcome(DictSet(st, id, Len(hp) + 1),
            Append(hp, NewSession(id, Len(dcts) + 1, Len(dcts) + 2)),
            dcts \o << << >>, << >> >>,
            Len(hp) + 1)

\* SessionManager.get_or_create_session, lines 242-246; id is what Session()
\* draws if a Session is created
get_or_create_session(st, hp, dcts, session_id, id) ==
    IF Truthy(session_id) /\ DictHas(st, session_id)
    THEN Outcome(st, hp, dcts, DictValue(st, session_id))
    ELSE create_session(st, hp, dcts, id)

\* --------------------------------------------------------------- server

\* str(uuid.uuid4())[:8], session.py line 50: two of the 16^8 strings, so
\* that the generator may repeat itself
GeneratedIds == { <<"a", "1", "b", "2", "c", "3", "d", "4">>, <<"e", "5", "f", "6", "a", "7", "b", "8">> }

\* the session_id of a request: absent, empty, or a string
RequestIds == { None, << >> } \cup GeneratedIds

\* the force_agent of a /chat request
RequestForceAgents == { None, ethical_hacker }

\* the reply to the routing call the server is run with: a specialist is
\* reached by a forced /chat request
ServerRoutingReplies ==
    { <<"A", "G", "E", "N", "T", ":", " ", "c", "o", "n", "d", "u", "c", "t", "o", "r", "\n", "C", "O", "N", "F", "I", "D", "E", "N", "C", "E", ":", " ", "0", ".", "9", "\n", "R", "E", "A", "S", "O", "N", ":", " ", "s", "m", "a", "l", "l", " ", "t", "a", "l", "k">> }

ServerAgents ==
    <<Profile(ethical_hacker, <<"s", "e", "c", "u", "r", "i", "t", "y">>, <<"F", "i", "n", "d", "s", " ", "h", "o", "l", "e", "s", ".">>),
      Profile(backend_engineer, <<"d", "e", "v", "e", "l", "o", "p", "e", "r", "s">>, <<"B", "u", "i", "l", "d", "s", " ", "s", "e", "r", "v", "i", "c", "e", "s", ".">>)>>

\* ConductorResponse.latency_ms, the time respond took
Latencies == {12}

\* a request handler that is running: the endpoint and where the handler
\* is in it, the request's message and session_id, the local `session`, and
\* for /stream the local `response` once respond has returned, with the
\* number of turns the Session had when the response was sent
Handler(kind, msg, session_id, ref) ==
    [kind |-> kind, message |-> msg, session_id |-> session_id, session |-> ref,
     response |-> NoDecision, delivery |-> 0]

RECURSIVE TotalTurns(_)
\* the turns of all Sessions
TotalTurns(hp) ==
    IF hp = << >> THEN 0 ELSE Len(Head(hp).turns) + TotalTurns(Tail(hp))

\* the turns a handler that waits at an await will add
Pending == IF suspended = NoHandler THEN 0 ELSE 1

\* the server after startup (lifespan, lines 97-131): a conductor, and a
\* session manager with no persisted sessions
InitServer ==
    /\ agents = DictOf(ServerAgents)
    /\ ConductorIdle
    /\ heap = << >>
    /\ dicts = << >>
    /\ store = << >>
    /\ NoRequests
    /\ NoSnapshot
    /\ stream = NoStream
    /\ last_op = Op("none", 0)
    /\ result = None

\* respond's frame is gone once the handler that called it has ended
RespondFrameDropped ==
    /\ pc' = "idle"
    /\ query' = None
    /\ session' = 0
    /\ force_agent' = None
    /\ response' = None
    /\ parsed' = NoDecision
    /\ routing' = NoDecision
    /\ calls' = << >>
    /\ replies' = << >>
    /\ specialist_response' = None
    /\ message' = None
    /\ raised' = ""
    /\ UNCHANGED agents

\* json of a RoutingDecision, lines 221-225 and 334-338
RoutingJson(r) ==
    IF IsDecision(r)
    THEN [agent |-> r.agent, confidence |-> r.confidence, reasoning |-> r.reasoning]
    ELSE NoDecision

\* POST /chat, lines 185-199: the handler up to the first backend call of
\* respond
ChatRequest(msg, session_id, f, id) ==
    /\ handler = NoHandler
    /\ LET o == get_or_create_session(store, heap, dicts, session_id, id) IN
       /\ Len(o.heap) <= MaxSessions
       /\ TotalTurns(o.heap) + Pending < MaxTurns
       /\ store' = o.store
       /\ heap' = o.heap
       /\ dicts' = o.dicts
       /\ handler' = Handler("chat", msg, session_id, o.ref)
       /\ RespondCalled(msg, o.ref, o.heap[o.ref], o.dicts, f)
    /\ outbox' = IF suspended = NoHandler THEN NoEvents
                  ELSE [outbox EXCEPT !.http = << >>]
    /\ UNCHANGED <<opVars, suspended, diskVars, stream>>

\* /chat recording a turn when respond has raised
ChatFails_RecordsTurn ==
    /\ handler.kind = "chat"
    /\ pc = "failed"
    /\ heap' = [heap EXCEPT ![handler.session] =
                  add_turn(@, handler.message, None, routing, 0, 0)]
    /\ outbox' = [outbox EXCEPT !.http =
                    Append(@, [kind |-> "http", status |-> 500, detail |-> raised])]
    /\ handler' = NoHandler
    /\ RespondFrameDropped
    /\ UNCHANGED <<dicts, store, opVars, suspended, diskVars, stream>>

\* POST /chat, lines 198-199: respond raised
ChatFails ==
    /\ handler.kind = "chat"
    /\ pc = "failed"
    /\ outbox' = [outbox EXCEPT !.http =
                    Append(@, [kind |-> "http", status |-> 500, detail |-> raised])]
    /\ handler' = NoHandler
    /\ RespondFrameDropped
    /\ UNCHANGED <<memVars, store, opVars, suspended, diskVars, stream>>

\* POST /chat, lines 201-228: respond returned; the turn is recorded and
\* the response is returned to the caller
ChatCompletes(latency_ms) ==
    /\ handler.kind = "chat"
    /\ pc = "done"
    /\ heap' = [heap EXCEPT ![handler.session] =
                  add_turn(@, handler.message, message, routing, 0, latency_ms)]
    /\ outbox' = [outbox EXCEPT !.http =
                    Append(@, [kind |-> "http", status |-> 200, message |-> message,
                               session_id |-> heap[handler.session].id])]
    /\ handler' = NoHandler
    /\ RespondFrameDropped
    /\ UNCHANGED <<dicts, store, opVars, suspended, diskVars, stream>>

\* /stream, lines 355-356: a send raised WebSocketDisconnect, the handler has
\* left its loop and reads no further message; kept with the events of the
\* connection
ConnectionOver == [kind |-> "closed"]

\* /stream, lines 308-321: a message arrives on the connection and the
\* Session is looked up; connected tells whether the send of line 321
\* succeeds
StreamReceive(msg, session_id, id, connected) ==
    /\ handler = NoHandler
    /\ suspended = NoHandler
    /\ LET o == get_or_create_session(store, heap, dicts, session_id, id) IN
       /\ Len(o.heap) <= MaxSessions
       /\ TotalTurns(o.heap) < MaxTurns
       /\ store' = o.store
       /\ heap' = o.heap
       /\ dicts' = o.dicts
       /\ IF session_id = o.heap[o.ref].id
          THEN /\ outbox' = NoEvents
               /\ handler' = Handler("stream", msg, session_id, o.ref)
               /\ RespondCalled(msg, o.ref, o.heap[o.ref], o.dicts, None)
          ELSE IF connected
          THEN /\ outbox' = [NoEvents EXCEPT !.ws =
                               <<[kind |-> "session_id",
                                  session_id |-> o.heap[o.ref].id]>>]
               /\ handler' = Handler("stream-told", msg, session_id, o.ref)
               /\ UNCHANGED condVars
          ELSE /\ outbox' = [NoEvents EXCEPT !.ws = <<ConnectionOver>>]
               /\ handler' = NoHandler
               /\ UNCHANGED condVars
    /\ UNCHANGED <<opVars, suspended, diskVars, stream>>

\* /stream, lines 326-329: after the send of line 321 the handler calls
\* respond
StreamRespond ==
    /\ handler.kind = "stream-told"
    /\ handler' = [handler EXCEPT !.kind = "stream"]
    /\ RespondCalled(handler.message, handler.session, heap[handler.session],
                     dicts, None)
    /\ UNCHANGED <<memVars, store, outbox, opVars, suspended, diskVars, stream>>

\* /stream, lines 327-342: respond returned and the done event is sent; the
\* response is the handler's local
StreamSendDone ==
    /\ handler.kind = "stream"
    /\ pc = "done"
    /\ outbox' = [outbox EXCEPT !.ws =
                    Append(@, [kind |-> "done", message |-> message,
                               routing |-> RoutingJson(routing)])]
    /\ handler' = [handler EXCEPT !.kind = "stream-sent",
                                  !.response = [message |-> message, routing |-> routing],
                                  !.delivery = Len(heap[handler.session].turns)]
    /\ RespondFrameDropped
    /\ UNCHANGED <<memVars, store, opVars, suspended, diskVars, stream>>

\* /stream, lines 321 and 333: the await of a send gives the event loop to
\* another request
StreamYield ==
    /\ handler # NoHandler
    /\ handler.kind \in {"stream-told", "stream-sent"}
    /\ suspended = NoHandler
    /\ suspended' = handler
    /\ handler' = NoHandler
    /\ UNCHANGED <<condVars, memVars, store, outbox, opVars, diskVars, stream>>

\* /stream, lines 321 and 333: the handler that waited at a send goes on
StreamResume ==
    /\ handler = NoHandler
    /\ suspended # NoHandler
    /\ handler' = suspended
    /\ suspended' = NoHandler
    /\ UNCHANGED <<condVars, memVars, store, outbox, opVars, diskVars, stream>>

\* /stream, lines 333 and 352-356: the client is gone, the send of the
\* done event raises and so does the send of the error event
StreamDisconnected ==
    /\ handler.kind = "stream"
    /\ pc \in {"done", "failed"}
    /\ outbox' = [outbox EXCEPT !.ws = Append(@, ConnectionOver)]
    /\ handler' = NoHandler
    /\ RespondFrameDropped
    /\ UNCHANGED <<memVars, store, opVars, suspended, diskVars, stream>>

\* /stream recording the turn on the Session respond was called on last
StreamRecord_SharedSession(latency_ms) ==
    /\ handler.kind = "stream-sent"
    /\ heap' = [heap EXCEPT ![Len(heap)] =
                  add_turn(@, handler.message, handler.response.message,
                           handler.response.routing, 0, latency_ms)]
    /\ handler' = NoHandler
    /\ UNCHANGED <<condVars, dicts, store, outbox, opVars, suspended, diskVars, stream>>

\* /stream, lines 344-350: the turn is recorded
StreamRecord(latency_ms) ==
    /\ handler.kind = "stream-sent"
    /\ heap' = [heap EXCEPT ![handler.session] =
                  add_turn(@, handler.message, handler.response.message,
                           handler.response.routing, 0, latency_ms)]
    /\ handler' = NoHandler
    /\ UNCHANGED <<condVars, dicts, store, outbox, opVars, suspended, diskVars, stream>>

\* /stream going back to receive_json without an event when respond raised
StreamFails_Silent ==
    /\ handler.kind = "stream"
    /\ pc = "failed"
    /\ handler' = NoHandler
    /\ RespondFrameDropped
    /\ UNCHANGED <<memVars, store, outbox, opVars, suspended, diskVars, stream>>

\* /stream, lines 352-353: respond raised
StreamFails ==
    /\ handler.kind = "stream"
    /\ pc = "failed"
    /\ outbox' = [outbox EXCEPT !.ws = Append(@, [kind |-> "error", detail |-> raised])]
    /\ handler' = NoHandler
    /\ RespondFrameDropped
    /\ UNCHANGED <<memVars, store, opVars, suspended, diskVars, stream>>

\* the message of a /stream request
StreamQueries == { <<"y", "o">> }

\* the session_id of a /stream request: absent, or a string
StreamIds == { None, <<"a", "1", "b", "2", "c", "3", "d", "4">> }


\* --------------------------------------------- session manager: snapshot

\* del d[key]
DictDel(d, key) == SelectSeq(d, LAMBDA item : item.key # key)

\* the keys of a dict
Keys(d) == { d[k].key : k \in 1..Len(d) }

\* datetime.now().isoformat(), to the second
IsoNow == <<"2", "0", "2", "5", "-", "0", "1", "-", "0", "1", "T", "0", "0", ":", "0", "0", ":", "0", "0">>

\* whether datetime.fromisoformat takes the text: YYYY-MM-DDTHH:MM:SS
IsIsoFormat(text) ==
    /\ Len(text) = Len(IsoNow)
    /\ \A k \in 1..Len(text) :
          IF k \in {5, 8} THEN text[k] = "-"
          ELSE IF k = 11 THEN text[k] = "T"
          ELSE IF k \in {14, 17} THEN text[k] = ":"
          ELSE \E i \in 1..10 : Digits[i] = text[k]

\* the snapshot file holds a JSON object with these items
JsonObject(items) == [kind |-> "object", items |-> items]

\* the snapshot file holds a JSON array
JsonArray == [kind |-> "array"]

\* the snapshot file holds text that is not JSON
NotJson == [kind |-> "garbage"]

\* json.dumps of session.to_dict(), lines 272-276: the dict of to_dict with
\* the two times as text and the contents of the context and preferences dicts
SnapshotRecord(s, dcts) ==
    [id |-> s.id,
     created_at |-> IsoNow,
     turns |-> [k \in 1..Len(s.turns) |->
                   [timestamp |-> IsoNow] @@ TurnToDict(s.turns[k])],
     context |-> dcts[to_dict(s).context],
     preferences |-> dcts[to_dict(s).preferences],
     detected_mood |-> s.detected_mood,
     active_surface |-> s.active_surface]

\* _save_sessions writing its file next to what the file held
save_sessions_Merges(st, hp, dcts, dsk) ==
    JsonObject((IF dsk.kind = "object"
                THEN SelectSeq(dsk.items, LAMBDA item : ~DictHas(st, item.key))
                ELSE << >>)
               \o [k \in 1..Len(st) |->
                     Item(st[k].key, SnapshotRecord(hp[st[k].value], dcts))])

\* SessionManager._save_sessions, lines 266-276, with a persist path: the
\* file is replaced by one record per stored Session
save_sessions(st, hp, dcts, dsk) ==
    JsonObject([k \in 1..Len(st) |->
                  Item(st[k].key, SnapshotRecord(hp[st[k].value], dcts))])

\* delete_session that leaves the file to a later persist()
delete_session_NoSave(st, hp, dcts, dsk, path, session_id) ==
    IF DictHas(st, session_id)
    THEN [store |-> DictDel(st, session_id), disk |-> dsk, result |-> TRUE]
    ELSE [store |-> st, disk |-> dsk, result |-> FALSE]

\* SessionManager.delete_session, lines 248-255
delete_session(st, hp, dcts, dsk, path, session_id) ==
    IF DictHas(st, session_id)
    THEN [store |-> DictDel(st, session_id),
          disk |-> IF path
                   THEN save_sessions(DictDel(st, session_id), hp, dcts, dsk)
                   ELSE dsk,
          result |-> TRUE]
    ELSE [store |-> st, disk |-> dsk, result |-> FALSE]

\* SessionManager.get_session, lines 238-240: the Session, or None
get_session(st, session_id) ==
    IF DictHas(st, session_id) THEN DictValue(st, session_id) ELSE None

\* SessionManager.list_sessions, lines 257-259
list_sessions(st) == [k \in 1..Len(st) |-> st[k].value]

\* SessionManager.persist, lines 261-264
persist(st, hp, dcts, dsk, path) ==
    IF path THEN save_sessions(st, hp, dcts, dsk) ELSE dsk

\* null as a value of the snapshot
JsonNull == NoDecision

\* what the Turn(...) of from_dict raises for one turn dict, lines 198-213,
\* in the order of evaluation
TurnFromDictError(turn_data) ==
    IF /\ "routing" \in DOMAIN turn_data
       /\ IsDecision(turn_data.routing)
       /\ {"agent", "confidence", "reasoning"} \ DOMAIN turn_data.routing # {}
    THEN "KeyError"
    ELSE IF {"user_message", "assistant_response", "timestamp"} \ DOMAIN turn_data # {}
    THEN "KeyError"
    ELSE IF ~IsIsoFormat(turn_data.timestamp) THEN "ValueError"
    ELSE "none"

\* what Session.from_dict raises for a value of the snapshot, lines 188-213
FromDictError(data) ==
    IF data = JsonNull THEN "TypeError"
    ELSE IF "id" \notin DOMAIN data \/ "created_at" \notin DOMAIN data THEN "KeyError"
    ELSE IF ~IsIsoFormat(data.created_at) THEN "ValueError"
    ELSE LET turns == Get(data, "turns", << >>)
             bad == { k \in 1..Len(turns) : TurnFromDictError(turns[k]) # "none" }
         IN  IF bad = {} THEN "none"
             ELSE TurnFromDictError(turns[CHOOSE k \in bad : \A j \in bad : k <= j])

\* a store being loaded: the Sessions built so far, and what was raised
Loaded(st, hp, dcts, exc) == [store |-> st, heap |-> hp, dicts |-> dcts, exc |-> exc]

\* the loop of _load_sessions, lines 285-286: json.loads has made new dicts
\* for "context" and "preferences", and from_dict keeps them
RECURSIVE LoadItems(_, _)
LoadItems(items, acc) ==
    IF items = << >> THEN acc
    ELSE LET session_id == Head(items).key
             session_data == Head(items).value
             error == FromDictError(session_data)
             data == [context |-> Len(acc.dicts) + 1,
                      preferences |-> Len(acc.dicts) + 2] @@ session_data
         IN  IF error # "none" THEN [acc EXCEPT !.exc = error]
             ELSE LoadItems(Tail(items),
                    Loaded(DictSet(acc.store, session_id, Len(acc.heap) + 1),
                           Append(acc.heap, from_dict(data)),
                           acc.dicts \o <<Get(session_data, "context", << >>),
                                          Get(session_data, "preferences", << >>)>>,
                           "none"))

\* the exceptions _load_sessions catches, line 287
Caught == {"JSONDecodeError", "KeyError"}

\* SessionManager._load_sessions, lines 278-288, in a new process: what is
\* in the store when it returns or raises
load_sessions(dsk) ==
    IF dsk.kind = "absent" THEN Loaded(<< >>, << >>, << >>, "none")
    ELSE IF dsk.kind = "garbage" THEN Loaded(<< >>, << >>, << >>, "JSONDecodeError")
    ELSE IF dsk.kind = "array" THEN Loaded(<< >>, << >>, << >>, "AttributeError")
    ELSE LoadItems(dsk.items, Loaded(<< >>, << >>, << >>, "none"))

\* SessionManager.__init__, lines 225-230, in a new process
SessionManager(dsk, path) ==
    IF path /\ dsk.kind # "absent"
    THEN load_sessions(dsk)
    ELSE Loaded(<< >>, << >>, << >>, "none")

\* -------------------------------------------------- sample snapshot files

StoredTurn == Turn(<<"h", "e", "l", "l", "o">>, <<"h", "e", "y">>, NoDecision, 0, 0)

\* a record _save_sessions wrote for a Session with one turn
GoodRecord(id) ==
    [id |-> id,
     created_at |-> IsoNow,
     turns |-> <<[timestamp |-> IsoNow] @@ TurnToDict(StoredTurn)>>,
     context |-> << >>,
     preferences |-> <<Item(<<"t", "o", "n", "e">>, <<"b", "r", "i", "e", "f">>)>>,
     detected_mood |-> neutral,
     active_surface |-> None]

\* a record without its "id"
NoIdRecord == [created_at |-> IsoNow, turns |-> << >>]

\* a record whose time is not in ISO format
BadTimeRecord(id) == [id |-> id, created_at |-> <<"y", "e", "s", "t", "e", "r", "d", "a", "y">>, turns |-> << >>]

\* a record whose turn has no "timestamp"
BadTurnRecord(id) ==
    [id |-> id, created_at |-> IsoNow, turns |-> <<TurnToDict(StoredTurn)>>]

\* the files a SessionManager may find at its persist path
SampleSnapshots ==
    { NoFile,
      JsonObject(<<Item(<<"a", "1", "b", "2", "c", "3", "d", "4">>, GoodRecord(<<"a", "1", "b", "2", "c", "3", "d", "4">>))>>),
      NotJson,
      JsonArray,
      JsonObject(<<Item(<<"a", "1", "b", "2", "c", "3", "d", "4">>, NoIdRecord)>>),
      JsonObject(<<Item(<<"a", "1", "b", "2", "c", "3", "d", "4">>, GoodRecord(<<"a", "1", "b", "2", "c", "3", "d", "4">>)),
                   Item(<<"e", "5", "f", "6", "a", "7", "b", "8">>, BadTurnRecord(<<"e", "5", "f", "6", "a", "7", "b", "8">>))>>),
      JsonObject(<<Item(<<"a", "1", "b", "2", "c", "3", "d", "4">>, BadTimeRecord(<<"a", "1", "b", "2", "c", "3", "d", "4">>))>>),
      JsonObject(<<Item(<<"a", "1", "b", "2", "c", "3", "d", "4">>, JsonNull)>>) }

\* the persist path and the file the server is started with
SampleStores ==
    [persist_path : {TRUE}, disk : SampleSnapshots]
    \cup [persist_path : {FALSE}, disk : {NoFile}]

\* ------------------------------------------- the SessionManager operations

\* a SessionManager operation and the id it was called with
StoreOp(name, id) == [op |-> name, ref |-> 0, id |-> id]

\* what the construction of a SessionManager raised, and what it printed a
\* warning about
Constructed(m) ==
    [raised |-> IF m.exc \in Caught THEN "none" ELSE m.exc,
     warned |-> IF m.exc \in Caught THEN m.exc ELSE "none"]

\* the construction raised, and there is no SessionManager
ConstructionFailed == last_op.op = "init" /\ result.raised # "none"

\* state.session_manager = SessionManager(persist_path), server.py line 110,
\* in a process that has just started
Construct(dsk, path) ==
    LET m == SessionManager(dsk, path)
        made == Constructed(m).raised = "none"
    IN  /\ store' = IF made THEN m.store ELSE << >>
        /\ heap' = IF made THEN m.heap ELSE << >>
        /\ dicts' = IF made THEN m.dicts ELSE << >>
        /\ last_op' = StoreOp("init", None)
        /\ result' = Constructed(m)

\* the server has started on one of the sample files
InitStore ==
    \E cfg \in SampleStores :
        LET m == SessionManager(cfg.disk, cfg.persist_path)
            made == Constructed(m).raised = "none"
        IN  /\ agents = << >>
            /\ ConductorIdle
            /\ NoRequests
            /\ stream = NoStream
            /\ disk = cfg.disk
            /\ persist_path = cfg.persist_path
            /\ deleted = NoDeletions
            /\ store = IF made THEN m.store ELSE << >>
            /\ heap = IF made THEN m.heap ELSE << >>
            /\ dicts = IF made THEN m.dicts ELSE << >>
            /\ last_op = StoreOp("init", None)
            /\ result = Constructed(m)

\* the server stops without persist() and starts again on the file
Restart ==
    /\ Construct(disk, persist_path)
    /\ UNCHANGED <<condVars, handlerVars, diskVars, stream>>

\* manager.create_session(), Session() drawing id
CreateSession(id) ==
    LET o == create_session(store, heap, dicts, id)
    IN  /\ ~ConstructionFailed
        /\ Len(heap) < MaxSessions
        /\ store' = o.store
        /\ heap' = o.heap
        /\ dicts' = o.dicts
        /\ deleted' = [deleted EXCEPT !.gone = @ \ {id}]
        /\ last_op' = StoreOp("create_session", id)
        /\ result' = o.ref
        /\ UNCHANGED <<condVars, handlerVars, disk, persist_path, stream>>

\* manager.get_or_create_session(session_id), Session() drawing id if called
GetOrCreateSession(session_id, id) ==
    LET o == get_or_create_session(store, heap, dicts, session_id, id)
    IN  /\ ~ConstructionFailed
        /\ Len(heap) < MaxSessions
        /\ store' = o.store
        /\ heap' = o.heap
        /\ dicts' = o.dicts
        /\ deleted' = [deleted EXCEPT !.gone = IF o.heap = heap THEN @ ELSE @ \ {id}]
        /\ last_op' = StoreOp("get_or_create_session", session_id)
        /\ result' = o.ref
        /\ UNCHANGED <<condVars, handlerVars, disk, persist_path, stream>>

\* manager.get_session(session_id)
GetSession(session_id) ==
    /\ ~ConstructionFailed
    /\ last_op' = StoreOp("get_session", session_id)
    /\ result' = get_session(store, session_id)
    /\ UNCHANGED <<condVars, memVars, serverVars>>

\* DeleteSession with a file that is written on every call
DeleteSession_AlwaysSaves(session_id) ==
    LET o == delete_session(store, heap, dicts, disk, persist_path, session_id)
    IN  /\ ~ConstructionFailed
        /\ store' = o.store
        /\ disk' = persist(o.store, heap, dicts, disk, persist_path)
        /\ deleted' = IF o.result
                      THEN [ever |-> deleted.ever \cup {session_id},
                            gone |-> deleted.gone \cup {session_id}]
                      ELSE deleted
        /\ last_op' = StoreOp("delete_session", session_id)
        /\ result' = o.result
        /\ UNCHANGED <<condVars, memVars, handlerVars, persist_path, stream>>

\* manager.delete_session(session_id)
DeleteSession(session_id) ==
    LET o == delete_session(store, heap, dicts, disk, persist_path, session_id)
    IN  /\ ~ConstructionFailed
        /\ store' = o.store
        /\ disk' = o.disk
        /\ deleted' = IF o.result
                      THEN [ever |-> deleted.ever \cup {session_id},
                            gone |-> deleted.gone \cup {session_id}]
                      ELSE deleted
        /\ last_op' = StoreOp("delete_session", session_id)
        /\ result' = o.result
        /\ UNCHANGED <<condVars, memVars, handlerVars, persist_path, stream>>

\* manager.list_sessions()
ListSessions ==
    /\ ~ConstructionFailed
    /\ last_op' = StoreOp("list_sessions", None)
    /\ result' = list_sessions(store)
    /\ UNCHANGED <<condVars, memVars, serverVars>>

\* manager.persist()
Persist ==
    /\ ~ConstructionFailed
    /\ disk' = persist(store, heap, dicts, disk, persist_path)
    /\ last_op' = StoreOp("persist", None)
    /\ result' = None
    /\ UNCHANGED <<condVars, memVars, store, handlerVars, persist_path, deleted, stream>>

StoreMoods == { <<"t", "i", "r", "e", "d">> }

StoreContextValues == { <<"t", "l", "s">> }

MaxChanges == 1

RECURSIVE Changes(_, _)
\* how much the callers have changed the Sessions: turns, context items
\* and moods
Changes(hp, dcts) ==
    IF hp = << >> THEN 0
    ELSE Len(Head(hp).turns) + Len(dcts[Head(hp).context])
         + (IF Head(hp).detected_mood = neutral THEN 0 ELSE 1)
         + Changes(Tail(hp), dcts)

NextStore ==
    \/ \E id \in GeneratedIds : CreateSession(id)
    \/ \E session_id \in GeneratedIds, id \in GeneratedIds :
          GetOrCreateSession(session_id, id)
    \/ \E session_id \in GeneratedIds : GetSession(session_id)
    \/ \E session_id \in GeneratedIds : DeleteSession(session_id)
    \/ ListSessions
    \/ Persist
    \/ Restart
    \/ \E ref \in 1..Len(heap) :
          Changes(heap, dicts) < MaxChanges /\ AddTurn(ref, StoredTurn)
    \/ \E ref \in 1..Len(heap), value \in StoreContextValues :
          Changes(heap, dicts) < MaxChanges /\ UpdateContext(ref, <<"t", "o", "p", "i", "c">>, value)
    \/ \E ref \in 1..Len(heap), mood \in StoreMoods :
          Changes(heap, dicts) < MaxChanges /\ SetMood(ref, mood)

SpecStore == InitStore /\ [][NextStore]_vars
\* DELETE /sessions/{session_id}, lines 277-286: the handler has no await, so
\* it runs between the steps of no other handler but may run while a /stream
\* handler waits at a send
DeleteRequest(session_id) ==
    /\ handler = NoHandler
    /\ LET o == delete_session(store, heap, dicts, disk, persist_path, session_id) IN
       /\ store' = o.store
       /\ disk' = o.disk
       /\ outbox' = [outbox EXCEPT !.http =
                       IF o.result
                       THEN <<[kind |-> "http", status |-> 200, session_id |-> session_id]>>
                       ELSE <<[kind |-> "http", status |-> 404, detail |-> "Session not found"]>>]
    /\ UNCHANGED <<condVars, memVars, opVars, handler, suspended, persist_path,
                   deleted, stream>>

NextServer ==
    \/ \E msg \in Queries, session_id \in RequestIds, f \in RequestForceAgents,
          id \in GeneratedIds : ChatRequest(msg, session_id, f, id)
    \/ \E msg \in StreamQueries, session_id \in StreamIds, id \in GeneratedIds,
          connected \in BOOLEAN : StreamReceive(msg, session_id, id, connected)
    \/ StreamRespond
    \/ \E text \in ServerRoutingReplies : RouteReturns(text)
    \/ HandoffReturns(<<"r", "a", "w">>)
    \/ PresentReturns(<<"w", "a", "r", "m">>)
    \/ ChatReturns(<<"w", "a", "r", "m">>)
    \/ BackendFails
    \/ \E latency_ms \in Latencies : ChatCompletes(latency_ms)
    \/ ChatFails
    \/ \E session_id \in GeneratedIds : DeleteRequest(session_id)
    \/ StreamSendDone
    \/ StreamYield
    \/ StreamResume
    \/ StreamDisconnected
    \/ \E latency_ms \in Latencies : StreamRecord(latency_ms)
    \/ StreamFails

SpecServer == InitServer /\ [][NextServer]_vars

\* ------------------------------------------------- streaming backend calls

\* an empty line of the response body
BlankLine == [kind |-> "blank"]

\* a line that is not JSON
GarbageLine == [kind |-> "garbage"]

\* a line that holds a JSON object
JsonLine(data) == [kind |-> "json", data |-> data]

\* whether data.get(key) is a text that Python takes as true
HasText(data, key) == key \in DOMAIN data /\ data[key] # << >>

\* data.get("done"), lines 195, 252, 306, 354
DoneFlag(data) == "done" \in DOMAIN data /\ data.done

\* the token of a line, or << >> for none: data.get("response") in the
\* generate iterators (lines 193 and 304), data.get("message") and then
\* msg.get("content") in the chat iterators (lines 249-250 and 351-352)
TokenOf(kind, data) ==
    IF kind \in {"generate", "agenerate"}
    THEN IF HasText(data, "response") THEN data.response ELSE << >>
    ELSE IF "message" \in DOMAIN data /\ HasText(data.message, "content")
         THEN data.message.content
         ELSE << >>

\* the lines a streamed body is made of
SampleLines ==
    { BlankLine,
      GarbageLine,
      JsonLine([response |-> <<"H", "i">>]),
      JsonLine([message |-> [role |-> "assistant", content |-> <<"H", "i">>], done |-> FALSE]),
      JsonLine([response |-> << >>, done |-> TRUE]),
      JsonLine([message |-> [role |-> "assistant", content |-> << >>], done |-> TRUE]) }

MaxLines == 2

\* the bodies of at most MaxLines lines
Bodies == UNION { [1..n -> SampleLines] : n \in 0..MaxLines }

\* the status of the streamed response
Statuses == {200, 500}

\* _stream_generate, _stream_chat, _astream_generate, _astream_chat
StreamKinds == {"generate", "chat", "agenerate", "achat"}

\* a streaming call whose iterator has not been advanced
NewStream(kind, status, body) ==
    [kind |-> kind, status |-> status, lines |-> body, read |-> << >>,
     tokens |-> << >>, state |-> "new"]

\* a line with the done flag has been read
DoneSeen(s) ==
    \E k \in DOMAIN s.read :
        s.read[k].kind = "json" /\ DoneFlag(s.read[k].data)

\* the application calls a streaming method and holds the iterator
InitStream ==
    /\ agents = << >>
    /\ ConductorIdle
    /\ heap = << >>
    /\ dicts = << >>
    /\ store = << >>
    /\ NoRequests
    /\ NoSnapshot
    /\ last_op = Op("none", 0)
    /\ result = None
    /\ \E kind \in StreamKinds, status \in Statuses, body \in Bodies :
          stream = NewStream(kind, status, body)

\* lines 188-189, 244-245, 299-300, 346-347: the request is sent and
\* raise_for_status looks at the status
StreamOpen ==
    /\ stream.kind # "none"
    /\ stream.state = "new"
    /\ stream' = [stream EXCEPT !.state = IF stream.status >= 400
                                          THEN "HTTPStatusError" ELSE "open"]
    /\ UNCHANGED <<condVars, memVars, store, handlerVars, diskVars, opVars>>

\* lines 190, 246, 301, 348: the body has no more lines, the loop and the
\* iterator end
StreamEnds ==
    /\ stream.kind # "none"
    /\ stream.state = "open"
    /\ stream.lines = << >>
    /\ stream' = [stream EXCEPT !.state = "stop"]
    /\ UNCHANGED <<condVars, memVars, store, handlerVars, diskVars, opVars>>

\* lines 190-196, 246-253, 301-307, 348-355: one line of the body
StreamLine ==
    /\ stream.kind # "none"
    /\ stream.state = "open"
    /\ stream.lines # << >>
    /\ LET line == Head(stream.lines)
           next == [stream EXCEPT !.lines = Tail(@), !.read = Append(@, line)]
       IN  stream' =
             IF line.kind = "blank" THEN next
             ELSE IF line.kind = "garbage"
             THEN [next EXCEPT !.state = "JSONDecodeError"]
             ELSE [next EXCEPT
                     !.tokens = IF TokenOf(stream.kind, line.data) # << >>
                                THEN Append(@, TokenOf(stream.kind, line.data))
                                ELSE @,
                     !.state = IF DoneFlag(line.data) THEN "stop" ELSE @]
    /\ UNCHANGED <<condVars, memVars, store, handlerVars, diskVars, opVars>>

NextStream ==
    \/ StreamOpen
    \/ StreamLine
    \/ StreamEnds

SpecStream == InitStream /\ [][NextStream]_vars

\* ------------------------------------------- reading a reply line by line

RECURSIVE SplitLines(_)
\* the lines of a text
SplitLines(text) ==
    IF \A i \in 1..Len(text) : text[i] # "\n" THEN <<text>>
    ELSE LET p == CHOOSE i \in 1..Len(text) :
                      text[i] = "\n" /\ \A m \in 1..(i - 1) : text[m] # "\n"
         IN  <<SubSeq(text, 1, p - 1)>> \o SplitLines(SubSeq(text, p + 1, Len(text)))

\* the text has a line that begins with the keyword
HasLine(text, kw) ==
    \E k \in 1..Len(SplitLines(text)) : LiteralAt(kw, SplitLines(text)[k], 1)

\* what follows the keyword on the first line that begins with it
LineValue(text, kw) ==
    LET ls == SplitLines(text)
        k == CHOOSE x \in 1..Len(ls) :
                 LiteralAt(kw, ls[x], 1) /\ \A m \in 1..(x - 1) : ~LiteralAt(kw, ls[m], 1)
    IN  Strip(SubSeq(ls[k], Len(kw) + 1, Len(ls[k])))

\* the number of places of the text where the keyword stands
Occurrences(text, kw) == Cardinality({i \in 1..Len(text) : LiteralAt(kw, text, i)})

FirstWord(v) == SubSeq(v, 1, RunEnd("\\S", v, 1) - 1)

\* an unsigned decimal numeral
IsDecimal(v) ==
    /\ v # << >>
    /\ \A i \in 1..Len(v) : IsDigitOrDot(v[i])
    /\ ~IsExc(ParseFloat(v))

\* a decimal numeral, with or without a minus sign
IsNumber(v) == IsDecimal(v) \/ (v # << >> /\ v[1] = "-" /\ IsDecimal(Tail(v)))

AboveOne(v) == IsDecimal(v) /\ RatLess(Rat(1, 1), ParseFloat(v))

BelowZero(v) ==
    v # << >> /\ v[1] = "-" /\ IsDecimal(Tail(v)) /\ ParseFloat(Tail(v)).num > 0

AgentLineOk(text) == HasLine(text, kwAgent) /\ LineValue(text, kwAgent) # << >>

ConfidenceLineOk(text) ==
    HasLine(text, kwConfidence) /\ IsNumber(LineValue(text, kwConfidence))

ReasonLineOk(text) == HasLine(text, kwReason) /\ LineValue(text, kwReason) # << >>

\* exactly the three lines of the requested format, in order, each with a value
WellFormedThreeLines(text) ==
    LET ls == SplitLines(text)
    IN  /\ Len(ls) = 3
        /\ LiteralAt(kwAgent, ls[1], 1)
        /\ LiteralAt(kwConfidence, ls[2], 1)
        /\ LiteralAt(kwReason, ls[3], 1)
        /\ AgentLineOk(text) /\ ConfidenceLineOk(text) /\ ReasonLineOk(text)

\* empty, or one of the three lines missing or without a usable value
Malformed(text) ==
    ~(AgentLineOk(text) /\ ConfidenceLineOk(text) /\ ReasonLineOk(text))

FuzzyMatches(name, s) == Contains(name, s) \/ Contains(s, name)

IsNotFoundMessage(r) ==
    LET head == <<"A", "g", "e", "n", "t", " ", "'">>
        tail == <<"'", " ", "n", "o", "t", " ", "f", "o", "u", "n", "d", ",", " ", "h", "a", "n", "d", "l", "i", "n", "g", " ", "d", "i", "r", "e", "c", "t", "l", "y">>
    IN  /\ Len(r) >= Len(head) + Len(tail)
        /\ SubSeq(r, 1, Len(head)) = head
        /\ SubSeq(r, Len(r) - Len(tail) + 1, Len(r)) = tail

\* the calls of the handoff and presentation stage: all but the routing call
StageCalls == SelectSeq(calls, LAMBDA c : c.step # "route")

\* ------------------------------------------------------------- claims

\* C1: whatever text the routing call returns (empty, with none, some or all
\* of the three lines, with garbled values), _parse_routing_response returns
\* a RoutingDecision and raises nothing.
C1_ParseNeverRaises ==
    response # None => (IsDecision(routing) /\ raised # "ValueError")

\* a reply whose CONFIDENCE value float() rejects has been parsed
C1_Witness ==
    /\ response # None
    /\ ConfMatch(response).matched
    /\ IsExc(ParseFloat(ConfMatch(response).group))
    /\ IsDecision(routing)

C3_Original ==
    response # None =>
        (/\ ~HasLine(response, kwAgent) => parsed.agent = conductor
         /\ (~HasLine(response, kwConfidence)
               \/ ~IsNumber(LineValue(response, kwConfidence)))
              => parsed.confidence = Rat(1, 2)
         /\ ~HasLine(response, kwReason) => parsed.reasoning = DefaultReasoning
         /\ AgentLineOk(response)
              => parsed.agent = Lower(FirstWord(LineValue(response, kwAgent)))
         /\ (HasLine(response, kwConfidence)
               /\ IsDecimal(LineValue(response, kwConfidence))
               /\ ~AboveOne(LineValue(response, kwConfidence)))
              => parsed.confidence = ParseFloat(LineValue(response, kwConfidence))
         /\ ReasonLineOk(response)
              => parsed.reasoning = LineValue(response, kwReason))

\* C4 as stated: a CONFIDENCE value above 1 gives 1.0, one below 0 gives
\* 0.0, and one that is no number gives 0.5 and leaves the handler and the
\* reasoning of their own lines alone.
C4_Original ==
    (/\ response # None
     /\ IsDecision(routing)
     /\ Occurrences(response, kwConfidence) = 1
     /\ HasLine(response, kwConfidence)) =>
        LET v == LineValue(response, kwConfidence)
        IN  /\ AboveOne(v) => routing.confidence = Rat(1, 1)
            /\ BelowZero(v) => routing.confidence = Rat(0, 1)
            /\ ~IsNumber(v) =>
                 (/\ routing.confidence = Rat(1, 2)
                  /\ (AgentLineOk(response) /\ Occurrences(response, kwAgent) = 1)
                       => parsed.agent = Lower(FirstWord(LineValue(response, kwAgent)))
                  /\ (ReasonLineOk(response) /\ Occurrences(response, kwReason) = 1)
                       => parsed.reasoning = LineValue(response, kwReason))

\* C5: every RoutingDecision of route or respond, parsed or forced, has a
\* confidence between 0.0 and 1.0 inclusive.
C5_ConfidenceInUnitInterval ==
    IsDecision(routing) =>
        (/\ ~RatLess(routing.confidence, Rat(0, 1))
         /\ ~RatLess(Rat(1, 1), routing.confidence))

\* a reply whose CONFIDENCE value is above 1 has been parsed and clamped
C5_Witness ==
    /\ response # None
    /\ IsDecision(routing)
    /\ ConfMatch(response).matched
    /\ AboveOne(ConfMatch(response).group)
    /\ routing.confidence = Rat(1, 1)

\* C6 as stated: for a well-formed three-line reply whose AGENT value is an
\* identifier of the catalog, the decision's handler is that identifier.
C6_Original ==
    (/\ response # None
     /\ WellFormedThreeLines(response)
     /\ InCatalog(agents, LineValue(response, kwAgent))) =>
        (IsDecision(routing) /\ routing.agent = LineValue(response, kwAgent))

\* C7: when the extracted handler is neither "conductor" nor a catalog
\* identifier and some identifier contains it or is contained in it, the
\* handler returned is the first such identifier in the catalog's insertion
\* order; "hacker" with the catalog (ethical-hacker, backend-engineer) gives
\* ethical-hacker.
C7_FirstFuzzyMatchWins ==
    (/\ response # None
     /\ IsDecision(routing)
     /\ parsed.agent # conductor
     /\ ~InCatalog(agents, parsed.agent)
     /\ \E k \in 1..Len(agents) : FuzzyMatches(agents[k].name, parsed.agent)) =>
        (/\ \E k \in 1..Len(agents) :
               /\ routing.agent = agents[k].name
               /\ FuzzyMatches(agents[k].name, parsed.agent)
               /\ \A m \in 1..(k - 1) : ~FuzzyMatches(agents[m].name, parsed.agent)
         /\ ([k \in 1..Len(agents) |-> agents[k].name] = <<ethical_hacker, backend_engineer>>
               /\ parsed.agent = <<"h", "a", "c", "k", "e", "r">>)
              => routing.agent = ethical_hacker)

\* two identifiers match the extracted handler and the second was not taken
C7_Witness ==
    /\ response # None
    /\ IsDecision(routing)
    /\ parsed.agent # conductor
    /\ ~InCatalog(agents, parsed.agent)
    /\ Cardinality({k \in 1..Len(agents) : FuzzyMatches(agents[k].name, parsed.agent)}) >= 2
    /\ routing.agent = agents[1].name

\* C8: when the extracted handler is neither "conductor" nor a catalog
\* identifier and no identifier fuzzy-matches it, the decision has handler
\* "conductor", a handler-not-found message as its reasoning whatever REASON
\* line was parsed, and the parsed confidence.
C8_UnknownHandlerFallsBack ==
    (/\ response # None
     /\ IsDecision(routing)
     /\ parsed.agent # conductor
     /\ ~InCatalog(agents, parsed.agent)
     /\ \A k \in 1..Len(agents) : ~FuzzyMatches(agents[k].name, parsed.agent)) =>
        (/\ routing.agent = conductor
         /\ IsNotFoundMessage(routing.reasoning)
         /\ routing.confidence = parsed.confidence)

\* an unknown handler came with a REASON line and a CONFIDENCE value
C8_Witness ==
    /\ response # None
    /\ IsDecision(routing)
    /\ parsed.agent # conductor
    /\ ~InCatalog(agents, parsed.agent)
    /\ \A k \in 1..Len(agents) : ~FuzzyMatches(agents[k].name, parsed.agent)
    /\ parsed.reasoning # DefaultReasoning
    /\ parsed.confidence # Rat(1, 2)
    /\ routing.agent = conductor

\* C9 as stated: when respond is given a forced handler, no routing call is
\* made and the decision has that handler, confidence 1.0 and reasoning
\* "forced".
C9_Original ==
    (pc # "idle" /\ Truthy(force_agent)) =>
        (/\ \A i \in 1..Len(calls) : calls[i].step # "route"
         /\ IsDecision(routing)
         /\ routing.agent = force_agent
         /\ routing.confidence = Rat(1, 1)
         /\ routing.reasoning = <<"f", "o", "r", "c", "e", "d">>)

\* C9 amended: when respond is given a forced handler, no routing call is
\* made and the decision has that handler, confidence 1.0 and reasoning
\* "Agent forced by request".
C9_Amended ==
    (pc # "idle" /\ Truthy(force_agent)) =>
        (/\ \A i \in 1..Len(calls) : calls[i].step # "route"
         /\ routing = [agent |-> force_agent, confidence |-> Rat(1, 1),
                       reasoning |-> <<"A", "g", "e", "n", "t", " ", "f", "o", "r", "c", "e", "d", " ", "b", "y", " ", "r", "e", "q", "u", "e", "s", "t">>])

\* a forced respond call has returned
C9_Witness == pc = "done" /\ Truthy(force_agent) /\ IsDecision(routing)

\* C10 as stated: a respond call whose handler is not "conductor", routed or
\* forced, makes exactly two calls after routing: the handoff call, then the
\* presentation call.
C10_Original ==
    (pc = "done" /\ IsDecision(routing) /\ routing.agent # conductor) =>
        (/\ Len(StageCalls) = 2
         /\ StageCalls[1].step = "handoff"
         /\ StageCalls[2].step = "present")

\* C10 amended: a respond call that returns with a handler other than
\* "conductor" has made, after routing, the handoff call and then the
\* presentation call when the handler is in the catalog; when it is not,
\* which only a forced handler can be, handoff makes no call and the
\* presentation call is the only one.
C10_Amended ==
    (pc = "done" /\ IsDecision(routing) /\ routing.agent # conductor) =>
        IF InCatalog(agents, routing.agent)
        THEN StageCalls = <<HandoffCall(query, routing.agent, heap[session], dicts),
                             PresentCall(query, routing.agent, specialist_response)>>
        ELSE /\ Truthy(force_agent)
             /\ StageCalls = <<PresentCall(query, routing.agent, specialist_response)>>
             /\ specialist_response = AgentNotFound(routing.agent)

\* a routed respond call has returned from the specialist path
C10_Witness ==
    /\ pc = "done"
    /\ force_agent = None
    /\ IsDecision(routing)
    /\ routing.agent # conductor
    /\ Len(StageCalls) = 2

\* the calls of one step of respond
StepCalls(step) == SelectSeq(calls, LAMBDA c : c.step = step)

\* the part of the presentation prompt that carries the text t
SpecialistSection(t) ==
    <<"S", "P", "E", "C", "I", "A", "L", "I", "S", "T", " ", "R", "E", "S", "P", "O", "N", "S", "E", ":", "\n">> \o t \o <<"\n", "\n", "U", "S", "E", "R", "'", "S", " ", "O", "R", "I", "G", "I", "N", "A", "L", " ", "Q", "U", "E", "S", "T", "I", "O", "N", ":", "\n">>

\* C11: within one respond call the presentation call is issued only after
\* the handoff step has returned its text: while a handoff call is
\* outstanding no presentation call has been made, a presentation call is
\* the last call made and every handoff call made comes before it, and its
\* prompt embeds the text the handoff step returned.
C11_PresentationAfterHandoff ==
    /\ pc = "handoff" => StepCalls("present") = << >>
    /\ \A k \in DOMAIN calls :
         calls[k].step = "present" =>
           /\ k = Len(calls)
           /\ specialist_response # None
           /\ Len(StepCalls("handoff")) <= 1
           /\ \A j \in DOMAIN calls : calls[j].step = "handoff" =>
                (j = k - 1 /\ Len(replies) >= j /\ replies[j] = specialist_response)
           /\ Contains(calls[k].input, SpecialistSection(specialist_response))

\* the presentation call was issued after a handoff call returned
C11_Witness ==
    /\ pc = "present"
    /\ Len(calls) >= 2
    /\ calls[Len(calls) - 1].step = "handoff"
    /\ calls[Len(calls)].step = "present"
    /\ specialist_response = <<"r", "a", "w">>

\* C12: the message respond returns is the text the last backend call
\* returned: the presentation call's on the specialist path, the chat
\* call's on the direct path; specialist_response is the text the handoff
\* step returned on the specialist path and None on the direct path.
C12_MessageIsLastReply ==
    (pc = "done" /\ IsDecision(routing)) =>
        /\ Len(replies) = Len(calls)
        /\ message = replies[Len(replies)]
        /\ IF routing.agent = conductor
           THEN /\ calls[Len(calls)].step = "direct"
                /\ specialist_response = None
           ELSE /\ calls[Len(calls)].step = "present"
                /\ IF InCatalog(agents, routing.agent)
                   THEN /\ calls[Len(calls) - 1].step = "handoff"
                        /\ specialist_response = replies[Len(replies) - 1]
                   ELSE specialist_response = AgentNotFound(routing.agent)

\* respond returned from the specialist path with a presentation that
\* differs from the specialist's text
C12_Witness ==
    /\ pc = "done"
    /\ IsDecision(routing)
    /\ routing.agent # conductor
    /\ specialist_response = <<"r", "a", "w">>
    /\ message = <<"w", "a", "r", "m">>

\* C13: no step of route, handoff or respond, whether it returns or fails,
\* changes a Session: turns, context, preferences, detected mood and active
\* surface stay what they were.
C13_SessionUnchanged == [][heap' = heap /\ dicts' = dicts]_vars

\* respond returned from the direct path, which read the history of a
\* Session that has turns
C13_Witness ==
    /\ pc = "done"
    /\ calls[Len(calls)].step = "direct"
    /\ heap[session].turns # << >>
    /\ Len(calls[Len(calls)].input) > 1

\* the tokens of the first n turns, counted from the last one down
TokensUpTo(turns, n) ==
    LET f[k \in 0..n] == IF k = 0 THEN 0 ELSE f[k - 1] + turns[k].tokens_used
    IN  f[n]

\* C16: in every reachable state of a Session, after any sequence of
\* add_turn, update_context, set_mood and serialization operations,
\* total_turns is the number of Turns of its turn sequence and total_tokens
\* is the sum of their tokens_used.
C16_TotalsMatchTurns ==
    \A ref \in DOMAIN heap :
        /\ total_turns(heap[ref]) = Cardinality(DOMAIN heap[ref].turns)
        /\ total_tokens(heap[ref]) = TokensUpTo(heap[ref].turns, Len(heap[ref].turns))

\* a Session with two turns that used tokens, after another operation
C16_Witness ==
    \E ref \in DOMAIN heap :
        /\ Len(heap[ref].turns) = 2
        /\ total_tokens(heap[ref]) = 10
        /\ last_op.op \in {"update_context", "set_mood", "to_dict", "from_dict"}

IsPrefix(a, b) == Len(a) <= Len(b) /\ SubSeq(b, 1, Len(a)) = a

\* C17: the turn sequence of a Session is append-only: add_turn leaves the
\* turns there were in place and puts exactly one Turn, the new one, after
\* them; no other operation changes the turn sequence of any Session; so
\* the turn count never decreases.
C17_TurnsAppendOnly ==
    [][\A ref \in DOMAIN heap :
         /\ Len(heap'[ref].turns) >= Len(heap[ref].turns)
         /\ IF last_op' = Op("add_turn", ref)
            THEN heap'[ref].turns = Append(heap[ref].turns, result')
            ELSE heap'[ref].turns = heap[ref].turns]_vars

\* add_turn was called on a Session that had a different Turn already
C17_Witness ==
    \E ref \in DOMAIN heap :
        /\ last_op = Op("add_turn", ref)
        /\ Len(heap[ref].turns) = 2
        /\ heap[ref].turns[1] # heap[ref].turns[2]
        /\ heap[ref].turns[2] = result

\* C18: get_context_summary leaves out the section of recent turns when
\* there are no turns, of the context when it is empty, of the preferences
\* when they are empty, and of the mood when it is "neutral"; for a Session
\* with none of them it returns the empty string.
C18_SummaryOmitsEmptySections ==
    last_op.op = "get_context_summary" =>
        LET s == heap[last_op.ref] IN
        /\ s.turns = << >> => ~Contains(result, RecentHeader)
        /\ dicts[s.context] = << >> => ~Contains(result, <<"C", "o", "n", "t", "e", "x", "t", ":">>)
        /\ dicts[s.preferences] = << >> => ~Contains(result, <<"U", "s", "e", "r", " ", "p", "r", "e", "f", "e", "r", "e", "n", "c", "e", "s", ":">>)
        /\ s.detected_mood = neutral => ~Contains(result, <<"D", "e", "t", "e", "c", "t", "e", "d", " ", "m", "o", "o", "d", ":">>)
        /\ (/\ s.turns = << >>
            /\ dicts[s.context] = << >>
            /\ dicts[s.preferences] = << >>
            /\ s.detected_mood = neutral) => result = << >>

\* the summary of a Session that has turns and context, no preferences and
\* the default mood
C18_Witness ==
    /\ last_op.op = "get_context_summary"
    /\ heap[last_op.ref].turns # << >>
    /\ dicts[heap[last_op.ref].context] # << >>
    /\ dicts[heap[last_op.ref].preferences] = << >>
    /\ heap[last_op.ref].detected_mood = neutral
    /\ Contains(result, RecentHeader)

\* C19: Session.from_dict(session.to_dict()) is a Session with the same id,
\* as many turns, the same total_tokens, and context and preferences maps
\* equal to the original's, for a Session of 0, 1 or more turns.
C19_RoundTrip ==
    last_op.op = "from_dict" =>
        LET s == heap[last_op.ref]
            copy == heap[result]
        IN  /\ copy.id = s.id
            /\ Len(copy.turns) = Len(s.turns)
            /\ TokensUpTo(copy.turns, Len(copy.turns)) = TokensUpTo(s.turns, Len(s.turns))
            /\ dicts[copy.context] = dicts[s.context]
            /\ dicts[copy.preferences] = dicts[s.preferences]

\* a Session with two turns, tokens, a context item and a preference has
\* made the round trip
C19_Witness ==
    /\ last_op.op = "from_dict"
    /\ Len(heap[last_op.ref].turns) = 2
    /\ total_tokens(heap[last_op.ref]) > 0
    /\ dicts[heap[last_op.ref].context] # << >>
    /\ dicts[heap[last_op.ref].preferences] # << >>
    /\ heap[result] = heap[last_op.ref]

\* respond has returned a complete response
Returned ==
    /\ pc = "done"
    /\ raised = ""
    /\ message # None
    /\ message = replies[Len(replies)]

\* C14: in the /chat and the /stream handler a Turn is appended to a
\* Session only after respond has returned a complete response, and it is
\* the Turn of that response, on the handler's Session; a step taken while
\* respond is running or after it failed changes no turn sequence, and a
\* Session that is created has no turns.
C14_TurnOnlyAfterResponse ==
    [][/\ \A ref \in DOMAIN heap :
            heap'[ref].turns # heap[ref].turns =>
              /\ ref = handler.session
              /\ LET r == IF handler.kind = "chat"
                          THEN [message |-> message, routing |-> routing]
                          ELSE handler.response
                 IN  /\ handler.kind = "chat" => Returned
                     /\ handler.kind # "chat" => handler.kind = "stream-sent"
                     /\ r.message # None
                     /\ \E latency_ms \in Latencies :
                          heap'[ref].turns =
                            Append(heap[ref].turns,
                                   Turn(handler.message, r.message, r.routing, 0,
                                        latency_ms))
       /\ (handler.kind = "stream" /\ handler'.kind = "stream-sent") =>
            /\ Returned
            /\ handler'.response = [message |-> message, routing |-> routing]
       /\ \A ref \in DOMAIN heap' \ DOMAIN heap : heap'[ref].turns = << >>]_vars

\* a request on a Session that has a turn has failed
C14_Witness ==
    /\ handler = NoHandler
    /\ \/ outbox.ws = <<[kind |-> "error", detail |-> "BackendError"]>>
       \/ outbox.http = <<[kind |-> "http", status |-> 500, detail |-> "BackendError"]>>
    /\ \E k \in DOMAIN store :
         /\ store[k].key = <<"a", "1", "b", "2", "c", "3", "d", "4">>
         /\ Len(heap[store[k].value].turns) = 1

\* C15: when a backend call of respond fails, respond fails with that
\* error and issues no further call, and the /chat handler answers the
\* request with an error (status 500 and the error's text), not a response.
C15_BackendFailurePropagates ==
    [][/\ (pc \in {"route", "handoff", "present", "chat"} /\ raised' = "BackendError") =>
            (pc' = "failed" /\ calls' = calls /\ message' = None)
       /\ pc = "failed" => (calls' = calls \/ calls' = << >>)
       /\ (pc = "failed" /\ handler.kind = "chat") =>
            /\ handler' = NoHandler
            /\ outbox'.http = <<[kind |-> "http", status |-> 500, detail |-> raised]>>]_vars

\* a backend call of a /chat request failed and the request was answered
\* with the error
C15_Witness ==
    /\ handler = NoHandler
    /\ outbox.http = <<[kind |-> "http", status |-> 500, detail |-> "BackendError"]>>
    /\ \E k \in DOMAIN store : heap[store[k].value].turns = << >>

\* C20: get_or_create_session(id) returns the stored Session and leaves the
\* store as it was when id is a known id; otherwise it adds exactly one new
\* Session, under a freshly generated id that differs from the requested
\* id, and returns it.
C20_Original ==
    [][(handler = NoHandler /\ handler' # NoHandler /\ suspended' = suspended) =>
         LET session_id == handler'.session_id
             ref == handler'.session
         IN  IF Truthy(session_id) /\ DictHas(store, session_id)
             THEN /\ store' = store
                  /\ heap' = heap
                  /\ ref = DictValue(store, session_id)
             ELSE /\ ref \notin DOMAIN heap
                  /\ Len(store') = Len(store) + 1
                  /\ SubSeq(store', 1, Len(store)) = store
                  /\ store'[Len(store')] = Item(heap'[ref].id, ref)
                  /\ ~DictHas(store, heap'[ref].id)
                  /\ heap'[ref].id # session_id]_vars

\* C29: with an empty catalog every respond call is answered on the direct
\* path: route returns "conductor" whatever the backend replies, and no
\* handoff or presentation call is made.
C29_Original ==
    agents = << >> =>
        /\ IsDecision(routing) => routing.agent = conductor
        /\ \A k \in DOMAIN calls : calls[k].step \in {"route", "direct"}

\* C29 amended: with an empty catalog route returns "conductor" whatever the
\* backend replies and a respond call without a forced agent is answered on
\* the direct path; no respond call makes a handoff call; a respond call
\* with a forced agent other than "conductor" makes the presentation call,
\* on handoff's "not found" message, and no other call.
C29_Amended ==
    agents = << >> =>
        /\ \A k \in DOMAIN calls : calls[k].step # "handoff"
        /\ (IsDecision(routing) /\ ~Truthy(force_agent)) =>
              /\ routing.agent = conductor
              /\ \A k \in DOMAIN calls : calls[k].step \in {"route", "direct"}
        /\ (IsDecision(routing) /\ Truthy(force_agent) /\ force_agent # conductor) =>
              /\ Len(calls) = 1
              /\ calls[1].step = "present"
              /\ specialist_response = AgentNotFound(force_agent)

\* with an empty catalog the backend named an agent and respond returned
\* from the direct path
C29_Witness ==
    /\ agents = << >>
    /\ pc = "done"
    /\ force_agent = None
    /\ IsDecision(parsed)
    /\ parsed.agent = ethical_hacker
    /\ routing.agent = conductor
    /\ calls[Len(calls)].step = "direct"

\* the last n elements of a sequence, all of it if it has fewer
LastN(seq, n) ==
    IF Len(seq) <= n THEN seq ELSE [k \in 1..n |-> seq[Len(seq) - n + k]]

\* C30: on the direct path the messages of the chat call are, for each of
\* the last max_context_turns Turns of the Session, oldest first, a user
\* message and then an assistant message, and after them the query as a
\* user message; the Session's turns are the ones it had.
C30_ChatMessagesAreWindowPlusQuery ==
    \A k \in DOMAIN calls :
        calls[k].step = "direct" =>
            LET window == LastN(heap[session].turns, max_context_turns)
                messages == calls[k].input
            IN  /\ Len(messages) = 2 * Len(window) + 1
                /\ \A i \in DOMAIN window :
                     /\ messages[2 * i - 1] = [role |-> "user", content |-> window[i].user_message]
                     /\ messages[2 * i] = [role |-> "assistant", content |-> window[i].assistant_response]
                /\ messages[Len(messages)] = [role |-> "user", content |-> query]
                /\ \A i \in DOMAIN heap[session].turns :
                     heap[session].turns[i] = SampleTurns[i]

\* the chat call was made for a Session with more turns than the window
C30_Witness ==
    /\ pc = "chat"
    /\ Len(heap[session].turns) > max_context_turns
    /\ Len(calls[Len(calls)].input) = 2 * max_context_turns + 1

\* ------------------------------------------------ session manager claims

\* the file holds a record under the id
OnDisk(id) == disk.kind = "object" /\ DictHas(disk.items, id)

ListedIds == { heap[list_sessions(store)[k]].id : k \in 1..Len(store) }

C22_DeleteErasesSnapshot ==
    (last_op.op = "delete_session" /\ result = TRUE /\ persist_path) =>
        /\ ~DictHas(store, last_op.id)
        /\ disk.kind = "object"
        /\ ~DictHas(disk.items, last_op.id)

\* a delete that rewrote the file and left another Session's record in it
C22_Witness ==
    /\ last_op.op = "delete_session"
    /\ result = TRUE
    /\ persist_path
    /\ disk.kind = "object"
    /\ disk.items # << >>

\* C23: a stored session id becomes absent only by delete_session(id):
\* create_session, get_session, get_or_create_session, list_sessions,
\* persist, add_turn, update_context and set_mood keep every stored id (a
\* server that starts again has a new store)
C23_OnlyDeleteRemoves ==
    [][\A id \in Keys(store) :
          id \notin Keys(store)' =>
              \/ last_op'.op = "init"
              \/ last_op' = StoreOp("delete_session", id)]_vars

\* create_session has acted on a store that held a Session, which is kept
C23_Witness ==
    /\ last_op.op = "create_session"
    /\ Len(store) = 2

\* every record of the file can be made a Session
Deserializable(dsk) ==
    /\ dsk.kind = "object"
    /\ \A k \in 1..Len(dsk.items) : FromDictError(dsk.items[k].value) = "none"

\* C24 as stated: SessionManager(persist_path) never raises because of the
\* file's content, and with no file or a file that cannot be deserialized
\* the store is empty
C24_Original ==
    (last_op.op = "init" /\ persist_path) =>
        /\ result.raised = "none"
        /\ (~Deserializable(disk) => store = << >>)

\* C25: for an id that is not in the store get_session returns None and
\* delete_session returns False, and neither changes the store, a Session
\* or the snapshot file
C25_UnknownIdIsAbsent ==
    [][(last_op'.op \in {"get_session", "delete_session"}
        /\ ~DictHas(store, last_op'.id)) =>
          /\ result' = (IF last_op'.op = "get_session" THEN None ELSE FALSE)
          /\ store' = store
          /\ heap' = heap
          /\ dicts' = dicts
          /\ disk' = disk]_vars

\* delete_session returned False while the file was behind the store
C25_Witness ==
    /\ last_op.op = "delete_session"
    /\ result = FALSE
    /\ persist_path
    /\ store # << >>
    /\ ~(disk.kind = "object" /\ Keys(disk.items) = Keys(store))

\* ------------------------------------------------------ concurrent requests

\* the caller of the running handler knows the Session's id: it asked for
\* it, or the handler has sent it, or sends it with this step
KnowsId(h, id, sent) ==
    \/ h.session_id = id
    \/ \E k \in DOMAIN sent.ws :
          sent.ws[k].kind = "session_id" /\ sent.ws[k].session_id = id
    \/ \E k \in DOMAIN sent.http :
          sent.http[k].status = 200 /\ sent.http[k].session_id = id

\* C26: under every interleaving of the /chat and /stream handlers a step
\* that changes a turn sequence appends one Turn, with the running
\* request's message, to the Session that request was given and whose id its
\* caller knows, and changes no other Session's turns; a handler that waits
\* at an await goes on with the Session it had
C26_TurnsGoToOwnSession ==
    [][/\ \A ref \in DOMAIN heap :
            heap'[ref].turns # heap[ref].turns =>
              /\ ref = handler.session
              /\ KnowsId(handler, heap[ref].id, outbox')
              /\ Len(heap'[ref].turns) = Len(heap[ref].turns) + 1
              /\ SubSeq(heap'[ref].turns, 1, Len(heap[ref].turns)) = heap[ref].turns
              /\ heap'[ref].turns[Len(heap'[ref].turns)].user_message = handler.message
              /\ \A other \in DOMAIN heap \ {ref} :
                    heap'[other].turns = heap[other].turns
       /\ (suspended # NoHandler /\ suspended' = NoHandler) =>
            (handler = NoHandler /\ handler' = suspended)]_vars

\* a /stream request and a /chat request that began before it ended have
\* each recorded their Turn on their own Session
C26_Witness ==
    /\ handler = NoHandler
    /\ suspended = NoHandler
    /\ \E k \in DOMAIN outbox.ws : outbox.ws[k].kind = "done"
    /\ \E k \in DOMAIN outbox.http : outbox.http[k].status = 200
    /\ \E x, y \in DOMAIN heap :
          /\ heap[x].id # heap[y].id
          /\ Len(heap[x].turns) = 1
          /\ Len(heap[y].turns) = 1
          /\ heap[x].turns[1].user_message = <<"y", "o">>
          /\ heap[y].turns[1].user_message = <<"h", "i">>

\* C27 as stated: the turns of a Session are in the order in which the
\* responses were delivered to the callers: when the Turn of a response is
\* appended, the Session holds no Turn of a response delivered after it,
\* that is, it has the turns it had when the response was sent
C27_Original ==
    [][\A ref \in DOMAIN heap :
          (heap'[ref].turns # heap[ref].turns /\ handler.kind = "stream-sent") =>
              Len(heap[ref].turns) = handler.delivery]_vars

\* ---------------------------------------------------- streaming iterators

\* C28 as stated: for each of the four stream iterators, a stream that ends
\* without a line carrying the done flag is reported as a failure: an
\* iterator ends normally only after it has read a line with the done flag
C28_Original == stream.state = "stop" => DoneSeen(stream)

\* ---------------------------------------------------------- later claims

\* C31 as stated: get_chat_history(max_turns) returns the messages of at
\* most max_turns Turns, the most recent ones, so at most 2 * max_turns
\* messages, for every max_turns >= 0
C31_Original ==
    last_op.op = "get_chat_history" =>
        /\ Len(result) <= 2 * last_op.max_turns
        /\ result = TurnMessages(LastN(heap[last_op.ref].turns, last_op.max_turns))

\* C32 as stated: the prompt of every routing call contains the Session's
\* context summary whenever that summary is not empty
C32_Original ==
    \A k \in DOMAIN calls :
        (calls[k].step = "route" /\ get_context_summary(heap[session], dicts) # << >>) =>
            Contains(calls[k].input, get_context_summary(heap[session], dicts))

\* C33: every decision route returns has the handler "conductor" or a catalog
\* identifier, so respond without a forced handler hands off only to a
\* specialist of the catalog: whenever its decision names another handler
\* than "conductor", the handoff call to that specialist's model was issued.
C33_RoutedHandlerIsKnown ==
    (IsDecision(routing) /\ ~Truthy(force_agent)) =>
        /\ routing.agent = conductor \/ InCatalog(agents, routing.agent)
        /\ routing.agent # conductor =>
               \E k \in DOMAIN calls :
                   /\ calls[k].step = "handoff"
                   /\ calls[k].model = default_agent_model_prefix \o routing.agent

\* the reply named a handler outside the catalog, an identifier matched it and
\* the handoff to that specialist is under way
C33_Witness ==
    /\ IsDecision(routing)
    /\ ~Truthy(force_agent)
    /\ parsed.agent # conductor
    /\ ~InCatalog(agents, parsed.agent)
    /\ InCatalog(agents, routing.agent)
    /\ pc = "handoff"

C35_Original ==
    [][(last_op'.op = "create_session" /\ Len(heap') = Len(heap) + 1) =>
          /\ \A k \in DOMAIN store :
                /\ DictHas(store', store[k].key)
                /\ DictValue(store', store[k].key) = store[k].value
                /\ heap'[store[k].value].turns = heap[store[k].value].turns
          /\ Len(store') = Len(store) + 1]_vars

\* C36 as stated: whatever the interleaving of request handlers with
\* delete_session, a /chat or /stream handler appends a Turn only to a
\* Session the store holds at the moment of the append
C36_Original ==
    [][\A ref \in DOMAIN heap :
          Len(heap'[ref].turns) > Len(heap[ref].turns) =>
              \E k \in DOMAIN store : store[k].value = ref]_vars

\* C37 as stated: a Session and the Session from_dict built from its to_dict
\* share no mutable state: update_context on either of them leaves the
\* context and the preferences of the other as they were
C37_Original ==
    [][\A s \in DOMAIN heap, other \in DOMAIN heap :
          (s # other /\ last_op' = Op("update_context", s)) =>
              /\ dicts'[heap'[other].context] = dicts[heap[other].context]
              /\ dicts'[heap'[other].preferences] = dicts[heap[other].preferences]]_vars

\* the done and error events among the events sent for the current message
TerminalEvents(sent) ==
    {k \in DOMAIN sent : sent[k].kind \in {"done", "error"}}

\* the handler of the connection has left its loop
Over(sent) == sent # << >> /\ sent[Len(sent)] = ConnectionOver

\* C38: for each message received on /stream, the handler goes back to read
\* the next message only after it has sent exactly one terminal event: one
\* done event, built from the message and the routing respond returned, or
\* one error event, never both and never neither (a handler whose send found
\* the client gone leaves the loop and reads no next message).
C38_OneTerminalEvent ==
    [][/\ (handler # NoHandler /\ handler' = NoHandler /\ suspended' = NoHandler
             /\ handler.kind \in {"stream", "stream-sent"}) =>
            \/ Over(outbox'.ws)
            \/ Cardinality(TerminalEvents(outbox'.ws)) = 1
       /\ (handler # NoHandler /\ handler.kind = "stream"
             /\ handler' # NoHandler /\ handler'.kind = "stream-sent") =>
            /\ outbox'.ws = Append(outbox.ws, [kind |-> "done", message |-> message,
                                               routing |-> RoutingJson(routing)])
            /\ TerminalEvents(outbox.ws) = {}]_vars

\* a message was answered by the session_id event and one done event, its
\* turn is recorded and the handler is back at receive_json
C38_Witness ==
    /\ handler = NoHandler
    /\ suspended = NoHandler
    /\ Len(outbox.ws) = 2
    /\ outbox.ws[1].kind = "session_id"
    /\ outbox.ws[2].kind = "done"
    /\ \E k \in DOMAIN store : heap[store[k].value].turns # << >>

====
